---- MODULE Spec2Model ----
(***************************************************************************)
(* A model of the blockstack-storage-js client: the device-root page       *)
(* transformations (inode.js), the replication policy (policy.js), the     *)
(* datastore mount/create state machine (datastore.js) and the file API    *)
(* (api.js), run against a storage gateway.                                *)
(*                                                                         *)
(* Seven specifications share the module:                                  *)
(*   SpecRoot    deviceRootInsert / deviceRootRemove applied to a root     *)
(*   SpecSelect  selectDrivers applied to a strategy and a classification  *)
(*   SpecPure    the other pure functions applied to their inputs          *)
(*   Spec        one client issuing API calls against the gateway          *)
(*   SpecLostRoot file operations when the gateway has no root page        *)
(*   SpecOverlap two putFile calls of one client in flight together        *)
(*   SpecFlags   the client beside another session's partial-failure flag  *)
(* A specification leaves the variables of the others at their idle value. *)
(***************************************************************************)
EXTENDS Integers, Sequences, FiniteSets, TLC

VARIABLES
    device_root,   \* SpecRoot: the root object handed to deviceRootInsert/Remove
    root_call,     \* SpecRoot: the last call made on it (arguments, clock, result)
    sel,           \* SpecSelect: strategy, classification and selectDrivers' outcome
    pure,          \* SpecPure: a pure function, its input and its outcome
    storage,       \* Spec: the localStorage blob (mount cache, partial-failure flags)
    gw,            \* Spec: the gateway (datastore record, device root, file data)
    call,          \* Spec: the API call in flight or just completed
    prev,          \* Spec: summary of the call completed before `call`
    sent,          \* Spec: the device roots posted with putDeviceRoot, in order
    session,       \* Spec: the storage section of the session token's payload
    ops            \* SpecOverlap: the putFile operations in flight together

rootVars == <<device_root, root_call>>
selVars  == <<sel>>
pureVars == <<pure>>
overlapVars == <<ops>>
mainVars == <<storage, gw, call, prev, sent, session>>
vars     == <<device_root, root_call, sel, pure, storage, gw, call, prev, sent, session, ops>>

NULL == "null"          \* JavaScript null / undefined / absent key

(***************************************************************************)
(* Bounds of the model.                                                    *)
(***************************************************************************)
MaxTime == 2            \* the clock (new Date().getTime()) reads 1..MaxTime
MaxCount == 2           \* replica counts of a strategy range over 0..MaxCount
MaxDriverClasses == 2   \* a driver of a classification declares at most this many classes
MaxCalls == 2           \* API calls made in one behaviour of Spec
MaxLen == 3             \* length of the data ids handed to the string functions
MaxNodes == 2           \* objects and arrays of a value handed to jsonStableSerialize
MaxKids == 1            \* members of one such object or array

Times == 1..MaxTime

Names == {"file1", "file2"}     \* file names
Urls  == {"url1", "url2"}       \* replica URLs the gateway hands out

Max(a, b) == IF a > b THEN a ELSE b

EmptyMap == [n \in {} |-> NULL]                 \* the object {}
PartialMaps(D, R) == UNION {[S -> R] : S \in SUBSET D}

None == <<>>               \* an absent optional value
Some(x) == <<x>>            \* a present one

\* The session token's payload (jsontokens.decodeToken(sessionToken).payload)
\* and the keys of the signed-in user
DeviceId    == "dev1"       \* session.device_id
AppName     == "app.com"    \* getSessionAppName: host of session.app_domain
AppPrivKey  == "privkey1"   \* userData.appPrivateKey
getPubkeyHex(privkey_hex) == <<"pubkey", privkey_hex>>
datastoreGetId(pubkey) == <<"id", pubkey>>
DatastoreId == datastoreGetId(getPubkeyHex(AppPrivKey))     \* getSessionDatastoreID(sessionToken)
SessionDatastoreId == DatastoreId                \* getSessionDatastoreID: session.app_user_id
SessionBlockchainId == <<"name", "me.id">>       \* getSessionBlockchainID: session.blockchain_id
OtherBlockchainId == <<"name", "other.id">>      \* another owner's blockchain id
AppPublicKeys == <<[device_id |-> DeviceId, public_key |-> getPubkeyHex(AppPrivKey)]>>

(***************************************************************************)
(* Serialization.  JSON.stringify of a plain object and JSON.parse of the  *)
(* result are modelled symbolically: the text is a tagged copy, never the  *)
(* object itself.                                                          *)
(***************************************************************************)
JSONstringify(obj) == <<"json", obj>>
JSONparse(text) == text[2]

(***************************************************************************)
(* blob.js                                                                 *)
(***************************************************************************)
\* makeFullyQualifiedDataId: escape(`${device_id}:${data_id}`), kept as the pair
makeFullyQualifiedDataId(device_id, data_id) == <<device_id, data_id>>

\* makeDataInfo: the mutable-data envelope; `now` is its clock reading
makeDataInfo(data_id, data_payload, device_id, fq_data_id, now) ==
    [ fq_data_id |-> IF fq_data_id = NULL
                     THEN makeFullyQualifiedDataId(device_id, data_id)
                     ELSE fq_data_id,
      data       |-> data_payload,
      version    |-> 1,
      timestamp  |-> now ]

\* a variant that does not read the clock
ClocklessDataTombstone(tombstone_payload, now) ==
    [ op |-> "delete", timestamp |-> 0, id |-> tombstone_payload ]
\* makeDataTombstone: `delete-${now}:${tombstone_payload}`
makeDataTombstone(tombstone_payload, now) ==
    [ op |-> "delete", timestamp |-> now, id |-> tombstone_payload ]

\* signDataTombstone: `${tombstone}:${sigb64}`
signDataTombstone(tombstone, privkey) ==
    [ tombstone |-> tombstone, sig |-> <<"sig", tombstone, privkey>> ]

\* signRawData: the base64 signature of a buffer; signDataPayload signs the
\* payload framed as `${length}:${payload},`
signRawData(payload_buffer, privkey_hex) == <<"sig", payload_buffer, privkey_hex>>
signDataPayload(payload_string, privkey_hex) ==
    signRawData(<<"netstring", payload_string>>, privkey_hex)

\* jsonStableSerialize: JSON text with sorted keys
jsonStableSerialize(obj) == <<"json", obj>>

(***************************************************************************)
(* inode.js: device root pages                                             *)
(***************************************************************************)
makeEmptyDeviceRootDirectory(datastore_id, reader_pubkeys, now) ==
    [ proto_version |-> 2,
      type          |-> "ROOT_DIRECTORY_LEAF",
      owner         |-> datastore_id,
      readers       |-> reader_pubkeys,
      timestamp     |-> now,
      files         |-> EmptyMap,
      tombstones    |-> EmptyMap ]

\* a variant that drops the URLs
UrllessFileEntry(data_hash, data_urls, now) ==
    [ proto_version |-> 2,
      urls          |-> <<>>,
      data_hash     |-> data_hash,
      timestamp     |-> now ]

makeFileEntry(data_hash, data_urls, now) ==
    [ proto_version |-> 2,
      urls          |-> data_urls,
      data_hash     |-> data_hash,
      timestamp     |-> now ]

deviceRootSerialize(device_id, datastore_id, root_uuid, root, now) ==
    LET data_id == <<datastore_id, root_uuid>>
        device_root_data_id == makeFullyQualifiedDataId(device_id, data_id)
    IN  makeDataInfo(data_id, JSONstringify(root), device_id, device_root_data_id, now)

\* The timestamp both edits give the root: old + 1 > now ? old + 1 : now
NoAdvanceTimestamp(old, now) == IF old > now THEN old ELSE now
newRootTimestamp(old, now) == IF old + 1 > now THEN old + 1 ELSE now

(* deviceRootInsert assigns to the object it is given and returns the        *)
(* serialized page.  .root is the state of the argument object after the    *)
(* call, .ret the value returned.  now is the clock reading of the edit,    *)
(* now_blob that of the envelope.                                           *)
PureDeviceRootInsert(datastore_id, root_uuid, root, file_name, file_entry, device_id, now, now_blob) ==
    LET new_timestamp == newRootTimestamp(root.timestamp, now)
        edited == [root EXCEPT !.timestamp = new_timestamp,
                               !.files = (file_name :> file_entry) @@ @]
    IN  [ root |-> root,
          ret  |-> [ device_root_blob |->
                        deviceRootSerialize(device_id, datastore_id, root_uuid, edited, now_blob),
                     timestamp |-> new_timestamp ] ]
\* a variant that leaves the entry of a name the root already lists
KeepingDeviceRootInsert(datastore_id, root_uuid, root, file_name, file_entry, device_id, now, now_blob) ==
    LET new_timestamp == newRootTimestamp(root.timestamp, now)
        edited == [root EXCEPT !.timestamp = new_timestamp,
                               !.files = @ @@ (file_name :> file_entry)]
    IN  [ root |-> edited,
          ret  |-> [ device_root_blob |->
                        deviceRootSerialize(device_id, datastore_id, root_uuid, edited, now_blob),
                     timestamp |-> new_timestamp ] ]
deviceRootInsert(datastore_id, root_uuid, root, file_name, file_entry, device_id, now, now_blob) ==
    LET new_timestamp == newRootTimestamp(root.timestamp, now)
        edited == [root EXCEPT !.timestamp = new_timestamp,
                               !.files = (file_name :> file_entry) @@ @]
    IN  [ root |-> edited,
          ret  |-> [ device_root_blob |->
                        deviceRootSerialize(device_id, datastore_id, root_uuid, edited, now_blob),
                     timestamp |-> new_timestamp ] ]

(* deviceRootRemove: the same, with the tombstone recorded; files is left   *)
(* alone.  It returns the serialized page only.                             *)
UnlinkingDeviceRootRemove(datastore_id, root_uuid, root, file_name, file_tombstone, device_id, now, now_blob) ==
    LET new_timestamp == newRootTimestamp(root.timestamp, now)
        kept == DOMAIN root.files \ {file_name}
        edited == [root EXCEPT !.timestamp = new_timestamp,
                               !.files = [n \in kept |-> root.files[n]],
                               !.tombstones = (file_name :> file_tombstone) @@ @]
    IN  [ root |-> edited,
          ret  |-> deviceRootSerialize(device_id, datastore_id, root_uuid, edited, now_blob) ]
\* a variant that advances the timestamp but records no tombstone
ForgetfulDeviceRootRemove(datastore_id, root_uuid, root, file_name, file_tombstone, device_id, now, now_blob) ==
    LET edited == [root EXCEPT !.timestamp = newRootTimestamp(root.timestamp, now)]
    IN  [ root |-> edited,
          ret  |-> deviceRootSerialize(device_id, datastore_id, root_uuid, edited, now_blob) ]
deviceRootRemove(datastore_id, root_uuid, root, file_name, file_tombstone, device_id, now, now_blob) ==
    LET new_timestamp == newRootTimestamp(root.timestamp, now)
        edited == [root EXCEPT !.timestamp = new_timestamp,
                               !.tombstones = (file_name :> file_tombstone) @@ @]
    IN  [ root |-> edited,
          ret  |-> deviceRootSerialize(device_id, datastore_id, root_uuid, edited, now_blob) ]

(***************************************************************************)
(* SpecRoot: the two edits applied to a device root page.                  *)
(***************************************************************************)
FileEntries == {makeFileEntry("hash1", <<"url1">>, t) : t \in Times}
FileTombstones(n) ==
    {makeDataTombstone(makeFullyQualifiedDataId(DeviceId, <<DatastoreId, n>>), t) : t \in Times}
TombstoneMaps ==
    UNION { {d \in [S -> UNION {FileTombstones(n) : n \in S}] : \A n \in S : d[n] \in FileTombstones(n)} :
            S \in SUBSET Names }
RootPages ==
    { [makeEmptyDeviceRootDirectory(DatastoreId, <<>>, t) EXCEPT !.files = f, !.tombstones = d] :
        t \in Times, f \in PartialMaps(Names, FileEntries), d \in TombstoneMaps }

NoRootCall == [op |-> "none"]
IdleSel  == [phase |-> "idle"]
IdlePure == [phase |-> "idle"]
IdleMain == [phase |-> "idle"]

InitRoot ==
    /\ device_root \in RootPages
    /\ root_call = NoRootCall
    /\ sel = IdleSel /\ pure = IdlePure /\ ops = IdleMain /\ storage = IdleMain /\ gw = IdleMain
    /\ call = IdleMain /\ prev = IdleMain /\ sent = <<>> /\ session = IdleMain

CallDeviceRootInsert ==
    /\ root_call = NoRootCall
    /\ \E file_name \in Names, file_entry \in FileEntries, now \in Times, now_blob \in Times :
          LET r == deviceRootInsert(DatastoreId, "uuid1", device_root, file_name, file_entry,
                                    DeviceId, now, now_blob)
          IN  /\ device_root' = r.root
              /\ root_call' = [ op |-> "insert", before |-> device_root, name |-> file_name,
                                arg |-> file_entry, now |-> now,
                                page |-> r.ret.device_root_blob, timestamp |-> r.ret.timestamp ]

CallDeviceRootRemove ==
    /\ root_call = NoRootCall
    /\ \E file_name \in Names, now \in Times, now_blob \in Times :
         \E file_tombstone \in FileTombstones(file_name) :
          LET r == deviceRootRemove(DatastoreId, "uuid1", device_root, file_name, file_tombstone,
                                    DeviceId, now, now_blob)
          IN  /\ device_root' = r.root
              /\ root_call' = [ op |-> "remove", before |-> device_root, name |-> file_name,
                                arg |-> file_tombstone, now |-> now,
                                page |-> r.ret, timestamp |-> JSONparse(r.ret.data).timestamp ]

NextRoot ==
    \/ CallDeviceRootInsert /\ UNCHANGED <<selVars, pureVars, mainVars, overlapVars>>
    \/ CallDeviceRootRemove /\ UNCHANGED <<selVars, pureVars, mainVars, overlapVars>>


SpecRoot == InitRoot /\ [][NextRoot]_vars

(***************************************************************************)
(* policy.js: the replication policy                                       *)
(***************************************************************************)
SUPPORTED_STORAGE_CLASSES ==
    <<"read_public", "write_public", "read_private", "write_private", "read_local", "write_local">>
REPLICATION_STRATEGY_CLASSES ==
    [ local   |-> {"read_local", "write_local"},
      publish |-> {"read_public", "write_private"},
      public  |-> {"read_public", "write_public"},
      private |-> {"read_private", "write_private"} ]

Range(seq) == {seq[i] : i \in 1..Len(seq)}

\* all_drivers: the drivers of the classification in the order a Set first
\* sees them, walking the supported classes in order and each class's list
RECURSIVE allDrivers(_, _, _)
allDrivers(classes, i, acc) ==
    IF i > Len(SUPPORTED_STORAGE_CLASSES) THEN acc
    ELSE LET driver_set == classes[SUPPORTED_STORAGE_CLASSES[i]]
             fresh == SelectSeq(driver_set, LAMBDA d : d \notin Range(acc))
         IN  allDrivers(classes, i + 1, acc \o fresh)

\* driver_classes[d]: the supported classes whose list names d
driverClasses(classes, d) ==
    {SUPPORTED_STORAGE_CLASSES[i] : i \in
        {j \in 1..Len(SUPPORTED_STORAGE_CLASSES) : d \in Range(classes[SUPPORTED_STORAGE_CLASSES[j]])}}

\* does a driver with these classes match the concern?
driverMatches(dclasses, concern) ==
    \E dclass \in dclasses : dclass \in REPLICATION_STRATEGY_CLASSES[concern]

\* is the driver pushed, given the concern's fulfillment after counting it?
selectPushStrict(fulfillment, wanted) == fulfillment < wanted
selectPush(fulfillment, wanted) == fulfillment <= wanted

\* strategy fulfilled?  every concern's count has reached its target
strategyFulfilled(strategy, concern_fulfillment) ==
    \A k \in 1..Len(strategy) :
        ~(concern_fulfillment[strategy[k].concern] < strategy[k].count)

\* The two nested loops over all_drivers and Object.keys(replication_strategy),
\* from driver di and concern ci on.  A strategy is the sequence of its
\* (concern, count) entries in key order.
RECURSIVE selectLoop(_, _, _, _, _, _, _)
selectLoop(strategy, classes, all, di, ci, concern_fulfillment, selected_drivers) ==
    IF di > Len(all) THEN [have_drivers |-> FALSE, selected_drivers |-> selected_drivers]
    ELSE IF ci > Len(strategy)
    THEN selectLoop(strategy, classes, all, di + 1, 1, concern_fulfillment, selected_drivers)
    ELSE LET d == all[di]
             concern == strategy[ci].concern
             matches == driverMatches(driverClasses(classes, d), concern)
             cf == IF matches
                   THEN [concern_fulfillment EXCEPT ![concern] = @ + 1]
                   ELSE concern_fulfillment
             sd == IF matches /\ selectPush(cf[concern], strategy[ci].count)
                   THEN Append(selected_drivers, d)
                   ELSE selected_drivers
         IN  IF strategyFulfilled(strategy, cf)
             THEN [have_drivers |-> TRUE, selected_drivers |-> sd]
             ELSE selectLoop(strategy, classes, all, di, ci + 1, cf, sd)

\* selectDrivers: the list selected, or the Error thrown
selectDrivers(replication_strategy, classes) ==
    LET all_drivers == allDrivers(classes, 1, <<>>)
        none == [c \in DOMAIN REPLICATION_STRATEGY_CLASSES |-> 0]
        res == selectLoop(replication_strategy, classes, all_drivers, 1, 1, none, <<>>)
    IN  IF ~res.have_drivers
        THEN [throws |-> TRUE, error |-> "Unsatisfiable replication strategy"]
        ELSE [throws |-> FALSE, drivers |-> res.selected_drivers]

(***************************************************************************)
(* SpecSelect: selectDrivers applied to a strategy and a classification.   *)
(***************************************************************************)
Drivers == <<"A", "B">>                      \* the gateway's drivers, in list order
Concerns == DOMAIN REPLICATION_STRATEGY_CLASSES
Counts == 0..MaxCount

\* strategies of at most two concerns, as key-ordered entries
StrategyEntries == [concern : Concerns, count : Counts]
Strategies ==
    {<<>>}
    \cup {<<e>> : e \in StrategyEntries}
    \cup {<<p[1], p[2]>> : p \in {q \in StrategyEntries \X StrategyEntries :
                                     q[1].concern # q[2].concern}}

\* classifications: each driver declares at most MaxDriverClasses classes
DriverClassSets == {S \in SUBSET Range(SUPPORTED_STORAGE_CLASSES) : Cardinality(S) <= MaxDriverClasses}
classification(declared) ==
    [c \in Range(SUPPORTED_STORAGE_CLASSES) |-> SelectSeq(Drivers, LAMBDA d : c \in declared[d])]
Classifications == {classification(declared) : declared \in [Range(Drivers) -> DriverClassSets]}

IdleRoot == [op |-> "idle"]

InitSelect ==
    /\ \E S \in Strategies, C \in Classifications :
          sel = [phase |-> "input", strategy |-> S, classes |-> C]
    /\ device_root = IdleRoot /\ root_call = IdleRoot /\ pure = IdlePure /\ ops = IdleMain
    /\ storage = IdleMain /\ gw = IdleMain
    /\ call = IdleMain /\ prev = IdleMain /\ sent = <<>> /\ session = IdleMain

CallSelectDrivers ==
    /\ sel.phase = "input"
    /\ sel' = [ phase |-> "done", strategy |-> sel.strategy, classes |-> sel.classes,
                out |-> selectDrivers(sel.strategy, sel.classes) ]

NextSelect ==
    CallSelectDrivers /\ UNCHANGED <<rootVars, pureVars, mainVars, overlapVars>>

SpecSelect == InitSelect /\ [][NextSelect]_vars

(***************************************************************************)
(* Byte strings.  A payload is a sequence of bytes; text is a sequence of  *)
(* code points.  response.text() decodes the body as UTF-8, replacing each *)
(* malformed byte by U+FFFD; Buffer(x).toString("base64") and the          *)
(* gateway's decoding of it are kept symbolic.                             *)
(***************************************************************************)
IsContinuation(b) == b >= 128 /\ b <= 191
IsLead2(b) == b >= 194 /\ b <= 223

RECURSIVE Utf8Decode(_)
Utf8Decode(bytes) ==
    IF bytes = <<>> THEN <<>>
    ELSE LET b == Head(bytes) IN
         IF b < 128 THEN <<b>> \o Utf8Decode(Tail(bytes))
         ELSE IF IsLead2(b) /\ Len(bytes) >= 2 /\ IsContinuation(bytes[2])
         THEN <<(b - 192) * 64 + (bytes[2] - 128)>> \o Utf8Decode(Tail(Tail(bytes)))
         ELSE <<65533>> \o Utf8Decode(Tail(bytes))

RECURSIVE Utf8Encode(_)
Utf8Encode(text) ==
    IF text = <<>> THEN <<>>
    ELSE LET c == Head(text) IN
         (IF c < 128 THEN <<c>>
          ELSE IF c < 2048 THEN <<192 + (c \div 64), 128 + (c % 64)>>
          ELSE <<224 + (c \div 4096), 128 + ((c \div 64) % 64), 128 + (c % 64)>>)
         \o Utf8Encode(Tail(text))

Base64Encode(bytes) == <<"base64", bytes>>
Base64Decode(b64) == b64[2]
hashDataPayload(payload_buffer) == <<"sha256", Utf8Encode(payload_buffer)>>

\* The bytes the two framings are computed over.  A string is its sequence
\* of characters (code points below 65536, one UTF-16 unit each), so
\* payload_string.length is Len, and Buffer.from(string) its UTF-8 bytes.
RECURSIVE decimalBytes(_)
decimalBytes(n) ==
    IF n < 10 THEN <<48 + n>> ELSE decimalBytes(n \div 10) \o <<48 + (n % 10)>>
\* hashDataPayload: `${payload_str.length}:`, payload_str, ',' with
\* payload_str = Buffer.from(payload_buffer)
hashDataPayloadInput(payload_buffer) ==
    LET payload_str == Utf8Encode(payload_buffer)
    IN  decimalBytes(Len(payload_str)) \o <<58>> \o payload_str \o <<44>>
\* signDataPayload: Buffer.concat of `${payload_string.length}:`,
\* payload_string and ','
signDataPayloadInput(payload_string) ==
    decimalBytes(Len(payload_string)) \o <<58>> \o Utf8Encode(payload_string) \o <<44>>

(***************************************************************************)
(* requests.js                                                             *)
(***************************************************************************)
\* An HTTP response: status, whether content-type is application/json, body
Response(status, json, body) == [status |-> status, json |-> json, body |-> body]

\* a variant that reads a JSON body before it looks at the status
BodyFirstHttpRequest(response) ==
    IF response.json THEN [kind |-> "json", body |-> response.body]
    ELSE IF response.status >= 400 THEN [kind |-> "throw", error |-> "statusText"]
    ELSE [kind |-> "text", text |-> Utf8Decode(response.body)]

\* httpRequest's settlement for a response: the promise rejects ("throw"),
\* resolves to an error object, to the parsed JSON or to the body as text
httpRequest(response) ==
    IF response.status >= 500 THEN [kind |-> "throw", error |-> "statusText"]
    ELSE IF response.status = 404
    THEN [kind |-> "error", error |-> "No such file or directory", errno |-> "ENOENT"]
    ELSE IF response.status = 403
    THEN [kind |-> "error", error |-> "Access denied", errno |-> "EACCES"]
    ELSE IF response.status = 401
    THEN [kind |-> "error", error |-> "Invalid request", errno |-> "EINVAL"]
    ELSE IF response.status = 400
    THEN [kind |-> "error", error |-> "Operation not permitted", errno |-> "EPERM"]
    ELSE IF response.json THEN [kind |-> "json", body |-> response.body]
    ELSE [kind |-> "text", text |-> Utf8Decode(response.body)]

(***************************************************************************)
(* blob.js on strings.  A string is the sequence of its characters.        *)
(***************************************************************************)
\* the characters escape() leaves alone: letters, digits and @*_+-./
EscapeKeeps == {"a", "d", "e", "l", "t", "x", "f", "0", "1", "2", "3", "4", "5",
                "6", "7", "8", "9", "-", ".", "/", "_"}
\* %XX of the other characters that occur
escapeChar(c) ==
    IF c \in EscapeKeeps THEN <<c>>
    ELSE IF c = ":" THEN <<"%", "3", "A">>
    ELSE IF c = "\\" THEN <<"%", "5", "C">>
    ELSE <<"%", "2", "5">>                       \* "%"
RECURSIVE escape(_)
escape(str) ==
    IF str = <<>> THEN <<>> ELSE escapeChar(Head(str)) \o escape(Tail(str))

\* String.prototype.replace with a string pattern: the first occurrence only
replace(str, char, replacement) ==
    LET found == {i \in 1..Len(str) : str[i] = char} IN
    IF found = {} THEN str
    ELSE LET i == CHOOSE k \in found : \A j \in found : k <= j
         IN  SubSeq(str, 1, i - 1) \o replacement \o SubSeq(str, i + 1, Len(str))

\* makeFullyQualifiedDataId on strings:
\* escape(`${device_id}:${data_id}`.replace('/', '\\x2f'))
fullyQualifiedDataIdText(device_id, data_id) ==
    escape(replace(device_id \o <<":">> \o data_id, "/", <<"\\", "x", "2", "f">>))

\* the decimal digits of a number
RECURSIVE decimalText(_)
decimalText(n) ==
    LET digit == <<"0", "1", "2", "3", "4", "5", "6", "7", "8", "9">>[(n % 10) + 1] IN
    IF n < 10 THEN <<digit>> ELSE decimalText(n \div 10) \o <<digit>>

\* makeDataTombstone on strings: `delete-${now}:${tombstone_payload}`
dataTombstoneText(tombstone_payload, now) ==
    <<"d", "e", "l", "e", "t", "e", "-">> \o decimalText(now) \o <<":">> \o tombstone_payload

\* the names blob.js binds: its imports and its own functions.  schemas.js
\* exports no OP_TOMBSTONE_PATTERN and blob.js imports nothing from it.
BlobScope == {"hashRawData", "decodePrivateKey", "makeFullyQualifiedDataId",
              "assert", "crypto", "EC", "ec", "Ajv", "BigInteger", "bitcoinjs",
              "hashDataPayload", "signRawData", "signDataPayload", "makeDataInfo",
              "makeDataTombstone", "makeDataTombstones", "signDataTombstone",
              "signDataTombstones", "parseDataTombstone", "parseFullyQualifiedDataId"}

\* parseDataTombstone: its first statement, new RegExp(OP_TOMBSTONE_PATTERN),
\* reads an identifier that is not bound in the module (strict mode), which
\* raises a ReferenceError before the string is looked at
parseDataTombstone(tombstone) ==
    IF "OP_TOMBSTONE_PATTERN" \notin BlobScope
    THEN [kind |-> "throw", error |-> "ReferenceError"]
    ELSE [kind |-> "null"]

(***************************************************************************)
(* util.js: jsonStableSerialize on values that may share or repeat nodes.  *)
(* A value is a heap of objects and arrays; a member is a reference to a   *)
(* heap node or Leaf, a primitive.  An object's members are listed in the  *)
(* sorted order of their keys.                                             *)
(***************************************************************************)
Leaf == 0
NodeIds == 1..MaxNodes
\* the call stack holds more frames than any value without a cycle needs;
\* exceeding it raises RangeError (Maximum call stack size exceeded)
StackLimit == MaxNodes + 2

Text(tokens) == [kind |-> "text", text |-> tokens]
Raise(error) == [kind |-> "throw", error |-> error]

RECURSIVE serializeNode(_, _, _, _, _)
RECURSIVE serializeMembers(_, _, _, _, _, _)
\* the inner function jsonStableSerialize(parent, key, node, level); seen is
\* the list of the objects (not arrays) being serialized up the stack
serializeNode(heap, node, seen, cycles, depth) ==
    IF depth > StackLimit THEN Raise("RangeError")
    ELSE IF node = Leaf THEN Text(<<"1">>)
    ELSE IF heap[node].type = "array"
    THEN LET out == serializeMembers(heap, heap[node].kids, 1, seen, cycles, depth)
         IN  IF out.kind = "throw" THEN out ELSE Text(<<"[">> \o out.text \o <<"]">>)
    ELSE IF node \in seen
    THEN IF cycles THEN Text(<<"__cycle__">>)
         ELSE Raise("TypeError")
    ELSE LET out == serializeMembers(heap, heap[node].kids, 1, seen \cup {node}, cycles, depth)
         IN  IF out.kind = "throw" THEN out ELSE Text(<<"{">> \o out.text \o <<"}">>)
\* the loop over an array's items or an object's sorted keys, from item i
serializeMembers(heap, kids, i, seen, cycles, depth) ==
    IF i > Len(kids) THEN Text(<<>>)
    ELSE LET item == serializeNode(heap, kids[i], seen, cycles, depth + 1) IN
         IF item.kind = "throw" THEN item
         ELSE LET rest == serializeMembers(heap, kids, i + 1, seen, cycles, depth) IN
              IF rest.kind = "throw" THEN rest ELSE Text(item.text \o rest.text)

\* jsonStableSerialize(obj, {cycles}): the walk from the root node
stableSerializeValue(heap, obj, cycles) == serializeNode(heap, obj, {}, cycles, 1)

(***************************************************************************)
(* SpecPure: a pure function applied to one input.                         *)
(***************************************************************************)
KidLists == UNION {[1..n -> NodeIds \cup {Leaf}] : n \in 0..MaxKids}
Heaps == [NodeIds -> [type : {"object", "array"}, kids : KidLists]]
DataIdTexts == UNION {[1..n -> {"a", "/"}] : n \in 0..MaxLen}
DeviceIdText == <<"d">>
\* metadata.js, setUserData.  A session token is a JWT, a string: jwt(t) is
\* the token whose payload carries timestamp t.  A string has no property
\* named timestamp, so token.timestamp is undefined, and a comparison with
\* undefined is false.
jwt(timestamp) == <<"jwt", [timestamp |-> timestamp]>>
stringProperty(string, name) == None
lessThan(a, b) == a # None /\ b # None /\ a[1] < b[1]
\* the object setUserData writes to localStorage, u being what getUserData read
setUserData(u, userData) ==
    IF u.coreSessionToken # None /\ userData.coreSessionToken # None
    THEN [userData EXCEPT !.coreSessionToken =
              IF lessThan(stringProperty(u.coreSessionToken[1], "timestamp"),
                          stringProperty(userData.coreSessionToken[1], "timestamp"))
              THEN userData.coreSessionToken ELSE u.coreSessionToken]
    ELSE userData
UserDatas ==
    [ coreSessionToken   : {None} \cup {Some(jwt(t)) : t \in Times},
      appPrivateKey      : {None, Some(AppPrivKey)},
      datastore_contexts : {None, Some(EmptyMap)} ]
PayloadTexts == UNION {[1..n -> {97, 233}] : n \in 0..MaxLen}     \* 'a' and U+00E9
NotTombstones == {<<>>, <<"a">>, <<"d", "e", "l", "e", "t", "e", "-", ":">>}
Statuses == {200, 400, 401, 403, 404, 500, 503}
Bodies == {<<>>, <<195>>, <<195, 169>>, <<104, 105>>}
Responses == {Response(status, json, body) :
                 status \in Statuses, json \in BOOLEAN, body \in Bodies}

InitPure ==
    /\ \/ \E response \in Responses :
             pure = [phase |-> "input", fn |-> "httpRequest", arg |-> response]
       \/ \E data_id \in DataIdTexts :
             pure = [phase |-> "input", fn |-> "makeFullyQualifiedDataId",
                     arg |-> [device_id |-> DeviceIdText, data_id |-> data_id]]
       \/ \E data_id \in DataIdTexts, now \in Times :
             LET id == fullyQualifiedDataIdText(DeviceIdText, data_id) IN
             pure = [phase |-> "input", fn |-> "parseDataTombstone",
                     arg |-> [tombstone |-> dataTombstoneText(id, now),
                              made |-> Some([id |-> id, timestamp |-> now])]]
       \/ \E heap \in Heaps, cycles \in BOOLEAN :
             pure = [phase |-> "input", fn |-> "jsonStableSerialize",
                     arg |-> [heap |-> heap, obj |-> 1, cycles |-> cycles]]
       \/ \E text \in NotTombstones :
             pure = [phase |-> "input", fn |-> "parseDataTombstone",
                     arg |-> [tombstone |-> text, made |-> None]]
       \/ \E payload \in PayloadTexts :
             pure = [phase |-> "input", fn |-> "signDataPayload", arg |-> payload]
       \/ \E u \in UserDatas, userData \in UserDatas :
             pure = [phase |-> "input", fn |-> "setUserData",
                     arg |-> [u |-> u, userData |-> userData]]
    /\ device_root = IdleRoot /\ root_call = IdleRoot /\ sel = IdleSel
    /\ storage = IdleMain /\ gw = IdleMain
    /\ call = IdleMain /\ prev = IdleMain /\ sent = <<>> /\ session = IdleMain
    /\ ops = IdleMain

CallHttpRequest ==
    /\ pure.phase = "input" /\ pure.fn = "httpRequest"
    /\ pure' = [ phase |-> "done", fn |-> pure.fn, arg |-> pure.arg,
                 out |-> httpRequest(pure.arg) ]

CallMakeFullyQualifiedDataId ==
    /\ pure.phase = "input" /\ pure.fn = "makeFullyQualifiedDataId"
    /\ pure' = [ phase |-> "done", fn |-> pure.fn, arg |-> pure.arg,
                 out |-> fullyQualifiedDataIdText(pure.arg.device_id, pure.arg.data_id) ]

CallParseDataTombstone ==
    /\ pure.phase = "input" /\ pure.fn = "parseDataTombstone"
    /\ pure' = [ phase |-> "done", fn |-> pure.fn, arg |-> pure.arg,
                 out |-> parseDataTombstone(pure.arg.tombstone) ]

CallJsonStableSerialize ==
    /\ pure.phase = "input" /\ pure.fn = "jsonStableSerialize"
    /\ pure' = [ phase |-> "done", fn |-> pure.fn, arg |-> pure.arg,
                 out |-> stableSerializeValue(pure.arg.heap, pure.arg.obj, pure.arg.cycles) ]

\* the byte sequences signDataPayload signs and hashDataPayload hashes
CallSignDataPayload ==
    /\ pure.phase = "input" /\ pure.fn = "signDataPayload"
    /\ pure' = [ phase |-> "done", fn |-> pure.fn, arg |-> pure.arg,
                 out |-> [ signed |-> signDataPayloadInput(pure.arg),
                           hashed |-> hashDataPayloadInput(pure.arg) ] ]

CallSetUserData ==
    /\ pure.phase = "input" /\ pure.fn = "setUserData"
    /\ pure' = [ phase |-> "done", fn |-> pure.fn, arg |-> pure.arg,
                 out |-> setUserData(pure.arg.u, pure.arg.userData) ]

NextPure ==
    \/ CallHttpRequest /\ UNCHANGED <<rootVars, selVars, mainVars, overlapVars>>
    \/ CallJsonStableSerialize /\ UNCHANGED <<rootVars, selVars, mainVars, overlapVars>>
    \/ CallMakeFullyQualifiedDataId /\ UNCHANGED <<rootVars, selVars, mainVars, overlapVars>>
    \/ CallParseDataTombstone /\ UNCHANGED <<rootVars, selVars, mainVars, overlapVars>>
    \/ CallSignDataPayload /\ UNCHANGED <<rootVars, selVars, mainVars, overlapVars>>
    \/ CallSetUserData /\ UNCHANGED <<rootVars, selVars, mainVars, overlapVars>>

SpecPure == InitPure /\ [][NextPure]_vars

(***************************************************************************)
(* metadata.js and the partial-failure marker of datastore.js.  storage is *)
(* the local-storage blob: the mount context cached under                  *)
(* <datastore id>/<app name> and the marker of <blockchain id>/<app name>. *)
(***************************************************************************)
getCachedMountContext(st, blockchain_id, full_app_name) ==
    LET cache_key == <<blockchain_id, full_app_name>> IN
    IF cache_key \in DOMAIN st.datastore_contexts
    THEN Some(st.datastore_contexts[cache_key]) ELSE None
ForgetfulSetCachedMountContext(st, blockchain_id, full_app_name, datastore_context) == st
\* a variant that keeps the context as the caller later marks it
MarkingSetCachedMountContext(st, blockchain_id, full_app_name, datastore_context) ==
    LET cache_key == <<blockchain_id, full_app_name>> IN
    [st EXCEPT !.datastore_contexts =
                   (cache_key :> [datastore_context EXCEPT !.created = TRUE]) @@ @]
setCachedMountContext(st, blockchain_id, full_app_name, datastore_context) ==
    LET cache_key == <<blockchain_id, full_app_name>> IN
    [st EXCEPT !.datastore_contexts = (cache_key :> datastore_context) @@ @]

NeverPartialFailure(st) == FALSE
\* The marker `${blockchain_id}/${session_app_name}` of a session token
\* (neither part holds a '/'), and gaia_state.partial_create_failures as the
\* map from markers to flags; a gaia_state without the map reads as {}.
partialFailureMarker(blockchain_id, session_app_name) == <<blockchain_id, "/", session_app_name>>
SessionMarker == partialFailureMarker(SessionBlockchainId, AppName)
OtherMarker == partialFailureMarker(OtherBlockchainId, AppName)     \* another user's session
markerIsSet(st, marker) ==
    marker \in DOMAIN st.partial_create_failures /\ st.partial_create_failures[marker]
\* a variant that keeps one flag for all markers
SharedPartialFailureMarker(st, marker, flag) ==
    [st EXCEPT !.partial_create_failures = [m \in DOMAIN @ \cup {marker} |-> flag]]
\* gaia_state.partial_create_failures[marker] = flag; setGaiaLocalData(gaia_state)
setPartialFailureMarker(st, marker, flag) ==
    [st EXCEPT !.partial_create_failures = (marker :> flag) @@ @]
\* the three functions, called with the session's token
datastoreCreateIsPartialFailure(st) == markerIsSet(st, SessionMarker)
datastoreCreateSetPartialFailure(st) == setPartialFailureMarker(st, SessionMarker, TRUE)
datastoreCreateSetRetry(st) == datastoreCreateSetPartialFailure(st)
datastoreCreateUnsetPartialFailure(st) == setPartialFailureMarker(st, SessionMarker, FALSE)

getDeviceRootVersion == 0       \* "TODO": the version map is not kept
putDeviceRootVersion == TRUE

(***************************************************************************)
(* datastore.js: mount and create                                          *)
(***************************************************************************)
\* the blockchain id datastoreMount goes on with: the session's own id means
\* a single-reader mount and is dropped
mountBlockchainId(opts_blockchain_id) ==
    IF opts_blockchain_id = SessionBlockchainId THEN None ELSE opts_blockchain_id

\* ds_cache_key: blockchain_id || session_datastore_id
dsCacheKey(blockchain_id) == IF blockchain_id # None THEN blockchain_id ELSE SessionDatastoreId

\* the app name of a multi-reader mount defaults to the session's
mountAppName(blockchain_id, opts_app_name) ==
    IF blockchain_id # None /\ opts_app_name = NULL THEN AppName ELSE opts_app_name

\* the context datastoreMount builds (blockchain_id None: single-reader, the
\* session's own datastore); scheme, host and port are left out
CreatedMountContext(blockchain_id, app_name) ==
    [ blockchain_id   |-> blockchain_id,
      app_name        |-> mountAppName(blockchain_id, app_name),
      datastore_id    |-> SessionDatastoreId,
      app_public_keys |-> AppPublicKeys,
      device_id       |-> DeviceId,
      datastore       |-> None,
      privkey_hex     |-> IF blockchain_id = None THEN AppPrivKey ELSE NULL,
      created         |-> TRUE,
      urls            |-> None ]
KeyedMountContext(blockchain_id, app_name) ==
    [ blockchain_id   |-> blockchain_id,
      app_name        |-> mountAppName(blockchain_id, app_name),
      datastore_id    |-> SessionDatastoreId,
      app_public_keys |-> AppPublicKeys,
      device_id       |-> DeviceId,
      datastore       |-> None,
      privkey_hex     |-> AppPrivKey,
      created         |-> FALSE,
      urls            |-> None ]
makeMountContext(blockchain_id, app_name) ==
    [ blockchain_id   |-> blockchain_id,
      app_name        |-> mountAppName(blockchain_id, app_name),
      datastore_id    |-> SessionDatastoreId,
      app_public_keys |-> AppPublicKeys,
      device_id       |-> DeviceId,
      datastore       |-> None,
      privkey_hex     |-> IF blockchain_id = None THEN AppPrivKey ELSE NULL,
      created         |-> FALSE,
      urls            |-> None ]

\* datastoreRequestPathInfo: the store id and query string of a request
datastoreRequestPathInfo(dsctx) ==
    IF dsctx.datastore_id # NULL
    THEN [store_id |-> dsctx.datastore_id, qs |-> "device_ids=&device_pubkeys="]
    ELSE [store_id |-> dsctx.app_name, qs |-> "blockchain_id="]
\* the request line of a mount
mountRequest(path_info) ==
    IF path_info.qs = "device_ids=&device_pubkeys=" THEN "GET /v1/stores/id"
    ELSE "GET /v1/stores/app?blockchain_id"

\* datastoreMount before any request: "null" when the marker is set, "cached"
\* when a context is cached, "request" when GET /v1/stores/<id> is to be sent
CacheFirstMount(st, blockchain_id, no_cache) ==
    IF ~no_cache /\ getCachedMountContext(st, dsCacheKey(blockchain_id), AppName) # None THEN "cached"
    ELSE IF datastoreCreateIsPartialFailure(st) THEN "null"
    ELSE "request"
datastoreMountSync(st, blockchain_id, no_cache) ==
    IF datastoreCreateIsPartialFailure(st) THEN "null"
    ELSE IF ~no_cache /\ getCachedMountContext(st, dsCacheKey(blockchain_id), AppName) # None THEN "cached"
    ELSE "request"

\* datastoreMount's handler of the response to GET /v1/stores/<id>
AnyErrorIsAbsent(ds, ctx) ==
    IF ds.kind = "throw" THEN ds
    ELSE IF ds.kind = "error" THEN [kind |-> "null"]
    ELSE [kind |-> "ctx", ctx |-> [ctx EXCEPT !.datastore = Some(ds.body.datastore)]]
datastoreMountResult(ds, ctx) ==
    IF ds.kind = "throw" THEN ds
    ELSE IF ds.kind = "error"
    THEN IF ds.errno = "ENOENT" THEN [kind |-> "null"]
         ELSE [kind |-> "throw", error |-> "Failed to get datastore"]
    ELSE [kind |-> "ctx", ctx |-> [ctx EXCEPT !.datastore = Some(ds.body.datastore)]]

\* datastoreCreateRequest: the datastore record and its empty device root
datastoreCreateRequest(drivers, device_id, all_device_ids, root_uuid, now) ==
    [ datastore |-> [ type       |-> "datastore",
                      pubkey     |-> getPubkeyHex(AppPrivKey),
                      drivers    |-> drivers,
                      device_ids |-> all_device_ids,
                      root_uuid  |-> root_uuid ],
      root      |-> makeEmptyDeviceRootDirectory(
                        datastoreGetId(getPubkeyHex(AppPrivKey)), <<>>, now) ]

\* the driver list of datastoreMountOrCreate: strategy.drivers, else the
\* session's preference for the app, else selectDrivers
chooseDrivers(strategy_drivers, replication_strategy, sess) ==
    IF strategy_drivers # None THEN [throws |-> FALSE, drivers |-> strategy_drivers[1]]
    ELSE IF sess.preferences # None THEN [throws |-> FALSE, drivers |-> sess.preferences[1]]
    ELSE selectDrivers(replication_strategy, sess.classes)

(***************************************************************************)
(* api.js: the bodies of the mutation requests                             *)
(***************************************************************************)
putFileDataBody(datastore_str, datastore_sig, file_header_blob, payload_b64, signature) ==
    [ headers       |-> <<file_header_blob>>,
      payloads      |-> <<payload_b64>>,
      signatures    |-> <<signature>>,
      tombstones    |-> <<>>,
      datastore_str |-> datastore_str,
      datastore_sig |-> datastore_sig ]
putDeviceRootBody(datastore_str, datastore_sig, device_root_page_blob, signature) ==
    [ headers       |-> <<>>,
      payloads      |-> <<device_root_page_blob>>,
      signatures    |-> <<signature>>,
      tombstones    |-> <<>>,
      datastore_str |-> datastore_str,
      datastore_sig |-> datastore_sig ]
deleteFileDataBody(datastore_str, datastore_sig, signed_tombstones) ==
    [ headers       |-> <<>>,
      payloads      |-> <<>>,
      signatures    |-> <<>>,
      tombstones    |-> signed_tombstones,
      datastore_str |-> datastore_str,
      datastore_sig |-> datastore_sig ]

\* putFile's request to store the file: header blob, payload and signature
putFileRequest(datastore, file_name, file_buffer, device_id, privkey_hex, now) ==
    LET file_hash == hashDataPayload(Utf8Decode(file_buffer))
        file_header == makeFileEntry(file_hash, <<>>, now)
        file_data_id == <<datastoreGetId(datastore.pubkey), file_name>>
        file_header_blob == makeDataInfo(file_data_id, jsonStableSerialize(file_header),
                                         device_id, NULL, now)
        file_header_blob_str == jsonStableSerialize(file_header_blob)
        datastore_str == JSONstringify(datastore)
    IN  putFileDataBody(datastore_str, signRawData(datastore_str, privkey_hex),
                        file_header_blob_str, Base64Encode(file_buffer),
                        signDataPayload(file_header_blob_str, privkey_hex))
\* putFile's and deleteFile's request to replicate the new device root
putRootRequest(datastore, device_root_blob, privkey_hex) ==
    LET device_root_blob_str == jsonStableSerialize(device_root_blob)
        datastore_str == JSONstringify(datastore)
    IN  putDeviceRootBody(datastore_str, signRawData(datastore_str, privkey_hex),
                          device_root_blob_str,
                          signDataPayload(device_root_blob_str, privkey_hex))
\* deleteFile's request to delete the file
deleteFileRequest(datastore, file_tombstones, privkey_hex) ==
    LET datastore_str == JSONstringify(datastore)
        signed_file_tombstones ==
            [i \in 1..Len(file_tombstones) |-> signDataTombstone(file_tombstones[i], privkey_hex)]
    IN  deleteFileDataBody(datastore_str, signRawData(datastore_str, privkey_hex),
                           signed_file_tombstones)

(***************************************************************************)
(* The gateway.  It keeps the datastore record, this device's root page    *)
(* (and the page it held before the last write, which a lagging replica    *)
(* may still serve) and the file data, and stores what it is sent.  Any    *)
(* request may instead be answered with a failure status.                  *)
(***************************************************************************)
FailStatuses == {400, 401, 403, 500}
Failures == {Response(status, FALSE, <<>>) : status \in FailStatuses}
NotFound == Response(404, FALSE, <<>>)
Ok(body) == Response(200, TRUE, body)

\* the datastore another owner keeps for the application
OtherDatastore ==
    [ type       |-> "datastore",
      pubkey     |-> getPubkeyHex("privkey2"),
      drivers    |-> <<"B">>,
      device_ids |-> <<"dev2">>,
      root_uuid  |-> 0 ]
GwGetDatastore(g, path_info) ==
    IF path_info.qs = "blockchain_id=" THEN Ok([datastore |-> OtherDatastore])
    ELSE IF g.datastore = None THEN NotFound ELSE Ok([datastore |-> g.datastore[1]])
GwCreateDatastore(g, req) ==
    [ gw   |-> [g EXCEPT !.datastore = Some(req.datastore),
                         !.root = Some(req.root), !.stale_root = None],
      resp |-> Ok([status |-> TRUE, root_urls |-> <<"url1">>, datastore_urls |-> <<"url1">>]) ]
GwGetDeviceRoots(g) ==
    IF g.root = None THEN {NotFound}
    ELSE {Ok([status |-> TRUE, device_root_page |-> r]) : r \in Range(g.root \o g.stale_root)}
\* the names of the files a list of signed tombstones deletes
tombstoneNames(signed_tombstones) ==
    {signed_tombstones[i].tombstone.id[2][2] : i \in 1..Len(signed_tombstones)}
\* the mutation endpoints read the request body: the file's payload, the
\* tombstones, the serialized device root blob
GwPutFile(g, file_name, body) ==
    [ gw   |-> [g EXCEPT !.files = (file_name :> Base64Decode(body.payloads[1])) @@ @],
      resp |-> Ok([status |-> TRUE, urls |-> <<"url1">>]) ]
GwDeleteFiles(g, body) ==
    [ gw   |-> [g EXCEPT !.files = [n \in DOMAIN @ \ tombstoneNames(body.tombstones) |-> @[n]]],
      resp |-> Ok([status |-> TRUE]) ]
GwPutDeviceRoot(g, body) ==
    [ gw   |-> [g EXCEPT !.stale_root = g.root,
                         !.root = Some(JSONparse(JSONparse(body.payloads[1]).data))],
      resp |-> Ok([status |-> TRUE, urls |-> <<"url1">>]) ]
GwGetFile(g, file_name) ==
    IF file_name \in DOMAIN g.files THEN Response(200, FALSE, g.files[file_name]) ELSE NotFound

(***************************************************************************)
(* API calls.  call.pc names the request the call is waiting on; an action *)
(* is the gateway's answer to it together with the handlers that run on    *)
(* the client up to the next request or to the call's settlement.          *)
(***************************************************************************)
Payloads == {<<195, 169>>, <<195>>}         \* "e-acute" in UTF-8, and a truncated sequence
MountStrategies ==
    { [drivers |-> None, strategy |-> <<>>],
      [drivers |-> None, strategy |-> <<[concern |-> "local", count |-> 1]>>],
      [drivers |-> None, strategy |-> <<[concern |-> "local", count |-> 2]>>],
      [drivers |-> Some(<<"B">>), strategy |-> <<>>] }
SessionClasses ==
    [c \in Range(SUPPORTED_STORAGE_CLASSES) |->
        IF c \in {"read_local", "write_local"} THEN <<"A">>
        ELSE IF c \in {"read_public", "write_public"} THEN <<"B">> ELSE <<>>]

\* the options of datastoreMount
MountOpts ==
    { [blockchainID |-> None, appName |-> NULL, noCachedMounts |-> nc] : nc \in BOOLEAN }
    \cup { [blockchainID |-> SessionBlockchainId, appName |-> AppName, noCachedMounts |-> FALSE] }
    \cup { [blockchainID |-> OtherBlockchainId, appName |-> a, noCachedMounts |-> FALSE] :
               a \in {NULL, AppName} }
NoOpts == [blockchainID |-> None, appName |-> NULL, noCachedMounts |-> FALSE]
\* getFileData mounts with the session's blockchain id and app name
DataOpts == [blockchainID |-> SessionBlockchainId, appName |-> AppName, noCachedMounts |-> FALSE]

\* the context the first mount of a call builds from its options
mountContextOf(c) == makeMountContext(mountBlockchainId(c.opts.blockchainID), c.opts.appName)

NoCall ==
    [ n |-> 0, op |-> "none", pc |-> "done", name |-> "", bytes |-> <<>>, opts |-> NoOpts,
      strategy |-> <<>>, strategy_drivers |-> None,
      flag_at_start |-> FALSE, cached_at_start |-> FALSE,
      requests |-> <<>>, fault |-> FALSE, status |-> 0, drivers |-> None, created |-> FALSE,
      urls |-> None, ds |-> None, device_root |-> None, tombstone |-> None, root_blob |-> None,
      body |-> None,
      result |-> [kind |-> "none"] ]
NewCall(op, name, bytes) ==
    [NoCall EXCEPT !.n = call.n + 1, !.op = op, !.name = name, !.bytes = bytes,
                   !.flag_at_start = markerIsSet(storage, SessionMarker),
                   !.cached_at_start =
                       (<<SessionDatastoreId, AppName>> \in DOMAIN storage.datastore_contexts)]
\* what is remembered of a settled call: its arguments, whether it resolved
\* to other than an error object, whether it created the datastore, and the
\* datastore_id of the context it resolved to
Succeeded(c) == c.pc = "done" /\ c.result.kind \in {"ctx", "urls", "true", "text", "null", "undefined"}
Summary(c) ==
    [ op |-> c.op, name |-> c.name, bytes |-> c.bytes, opts |-> c.opts, ok |-> Succeeded(c),
      ctx |-> IF c.result.kind = "ctx" THEN Some(c.result.ctx) ELSE None,
      created |-> c.created,
      datastore_id |-> IF c.result.kind = "ctx" THEN Some(c.result.ctx.datastore_id) ELSE None ]

Issue(c, request, pc) == [c EXCEPT !.pc = pc, !.requests = Append(@, request)]
Settle(c, result) ==
    [c EXCEPT !.pc = "done", !.result = result, !.ds = None, !.device_root = None,
              !.tombstone = None, !.root_blob = None, !.urls = None, !.drivers = None,
              !.body = None]
Throw(error) == [kind |-> "throw", error |-> error]
Idle == call.pc = "done" /\ call.n < MaxCalls
UsesMountOrCreate(op) == op \in {"mountOrCreate", "putFile", "deleteFile"}

\* what follows datastoreMountOrCreate's resolution to ctx: the promise of
\* the call itself, or putFile's / deleteFile's findDeviceRootInfo, whose
\* two mounts (findDatastoreInfo, getDeviceRoot) find the context cached
mountOrCreateResolved(c, st, ctx) ==
    IF c.op = "mountOrCreate" THEN Settle(c, [kind |-> "ctx", ctx |-> ctx])
    ELSE IF datastoreMountSync(st, None, FALSE) = "cached"
    THEN Issue([c EXCEPT !.ds = Some(ctx)], "GET device_roots", "get_root")
    ELSE Settle(c, Throw("No datastore returned"))

\* datastoreMountOrCreate up to its first request
mountOrCreateStart(c, st, sess) ==
    LET ds == getCachedMountContext(st, SessionDatastoreId, AppName) IN
    IF ds # None /\ ~datastoreCreateIsPartialFailure(st)
    THEN mountOrCreateResolved(c, st, ds[1])
    ELSE LET chosen == chooseDrivers(c.strategy_drivers, c.strategy, sess) IN
         IF chosen.throws THEN Settle(c, Throw(chosen.error))
         ELSE LET c1 == [c EXCEPT !.drivers = Some(chosen.drivers)]
                  mount == datastoreMountSync(st, None, FALSE)
              IN  IF mount = "null" THEN Issue(c1, "POST /v1/stores", "create")
                  ELSE IF mount = "cached" THEN mountOrCreateResolved(c1, st, ds[1])
                  ELSE Issue(c1, "GET /v1/stores/id", "mount")

StartMountOrCreate ==
    /\ Idle
    /\ \E s \in MountStrategies :
          call' = mountOrCreateStart(
                      [NewCall("mountOrCreate", "", <<>>) EXCEPT
                          !.strategy = s.strategy, !.strategy_drivers = s.drivers],
                      storage, session)
    /\ prev' = Summary(call)
    /\ UNCHANGED <<storage, gw, sent, session>>

StartMount ==
    /\ Idle
    /\ \E opts \in MountOpts :
         LET c == [NewCall("mount", "", <<>>) EXCEPT !.opts = opts]
             blockchain_id == mountBlockchainId(opts.blockchainID)
             mount == datastoreMountSync(storage, blockchain_id, opts.noCachedMounts)
         IN  call' = IF mount = "null" THEN Settle(c, [kind |-> "null"])
                     ELSE IF mount = "cached"
                     THEN Settle(c, [kind |-> "ctx", ctx |->
                              getCachedMountContext(storage, dsCacheKey(blockchain_id), AppName)[1]])
                     ELSE Issue(c, mountRequest(datastoreRequestPathInfo(mountContextOf(c))), "mount")
    /\ prev' = Summary(call)
    /\ UNCHANGED <<storage, gw, sent, session>>

SetRetry ==
    /\ Idle
    /\ storage' = datastoreCreateSetRetry(storage)
    /\ call' = Settle(NewCall("setRetry", "", <<>>), [kind |-> "undefined"])
    /\ prev' = Summary(call)
    /\ UNCHANGED <<gw, sent, session>>

StartPutFile ==
    /\ Idle
    /\ \E file_name \in Names, file_buffer \in Payloads :
          call' = mountOrCreateStart(NewCall("putFile", file_name, file_buffer), storage, session)
    /\ prev' = Summary(call)
    /\ UNCHANGED <<storage, gw, sent, session>>

\* deleteFile reads opts.sync first: a call without opts throws at once
StartDeleteFile ==
    /\ Idle
    /\ \E file_name \in Names, has_opts \in BOOLEAN :
          LET c == NewCall("deleteFile", file_name, <<>>)
          IN  call' = IF has_opts THEN mountOrCreateStart(c, storage, session)
                      ELSE Settle(c, Throw("TypeError"))
    /\ prev' = Summary(call)
    /\ UNCHANGED <<storage, gw, sent, session>>

StartGetFile ==
    /\ Idle
    /\ \E file_name \in Names :
          LET c == [NewCall("getFile", file_name, <<>>) EXCEPT !.opts = DataOpts]
              mount == datastoreMountSync(storage, None, FALSE)
          IN  call' = IF mount = "null" THEN Settle(c, Throw("No datastore returned"))
                      ELSE IF mount = "cached" THEN Issue(c, "GET files", "get_file")
                      ELSE Issue(c, "GET /v1/stores/id", "mount")
    /\ prev' = Summary(call)
    /\ UNCHANGED <<storage, gw, sent, session>>

\* the context datastoreMountOrCreate returns once it has created the datastore
markCreated(ctx, urls) == [ctx EXCEPT !.urls = urls, !.created = TRUE]

\* the answers a request can get: the gateway's, or a failure status
Answers(responses) == responses \cup Failures
\* the call remembers the status of the last answer it got
Faulted(c, response) ==
    [c EXCEPT !.fault = @ \/ response \in Failures, !.status = response.status]

\* GET /v1/stores/<id> answered, for the first mount of a call
MountResponse ==
    /\ call.pc = "mount"
    /\ \E response \in Answers({GwGetDatastore(gw, datastoreRequestPathInfo(mountContextOf(call)))}) :
          LET blockchain_id == mountBlockchainId(call.opts.blockchainID)
              r == datastoreMountResult(httpRequest(response), mountContextOf(call))
              c == Faulted(call, response)
              st == IF r.kind = "ctx" /\ ~call.opts.noCachedMounts
                    THEN setCachedMountContext(storage, dsCacheKey(blockchain_id), AppName, r.ctx)
                    ELSE storage
          IN  /\ storage' = st
              /\ call' =
                    IF r.kind = "throw" THEN Settle(c, r)
                    ELSE IF UsesMountOrCreate(c.op)
                    THEN IF r.kind = "ctx" THEN mountOrCreateResolved(c, st, r.ctx)
                         ELSE Issue(c, "POST /v1/stores", "create")
                    ELSE IF c.op = "getFile"
                    THEN IF r.kind = "ctx" THEN Issue(c, "GET files", "get_file")
                         ELSE Settle(c, Throw("No datastore returned"))
                    ELSE Settle(c, r)
    /\ UNCHANGED <<gw, prev, sent, session>>

\* a variant that hands the gateway's error object to the caller
LenientCreateHandled(c, st, res) ==
    IF res.kind = "json"
    THEN LET st1 == datastoreCreateUnsetPartialFailure(st)
             urls == Some([root |-> res.body.root_urls, datastore |-> res.body.datastore_urls])
             c1 == [c EXCEPT !.created = TRUE, !.urls = urls]
         IN  [ storage |-> st1,
               call |-> IF datastoreMountSync(st1, None, FALSE) = "cached"
                        THEN mountOrCreateResolved(c1, st1,
                                 markCreated(getCachedMountContext(st1, SessionDatastoreId, AppName)[1], urls))
                        ELSE Issue(c1, "GET /v1/stores/id", "remount") ]
    ELSE [ storage |-> st, call |-> Settle(c, res) ]
\* a variant that clears the marker whatever the answer
ClearingCreateHandled(c, st, res) ==
    [ storage |-> datastoreCreateUnsetPartialFailure(st),
      call |-> Settle(c, IF res.kind = "throw" THEN res
                         ELSE Throw("Failed to create datastore")) ]
\* datastoreMountOrCreate's handler of the response to POST /v1/stores
createHandled(c, st, res) ==
    IF res.kind = "json"
    THEN LET st1 == datastoreCreateUnsetPartialFailure(st)
             urls == Some([root |-> res.body.root_urls, datastore |-> res.body.datastore_urls])
             c1 == [c EXCEPT !.created = TRUE, !.urls = urls]
         IN  [ storage |-> st1,
               call |-> IF datastoreMountSync(st1, None, FALSE) = "cached"
                        THEN mountOrCreateResolved(c1, st1,
                                 markCreated(getCachedMountContext(st1, SessionDatastoreId, AppName)[1], urls))
                        ELSE Issue(c1, "GET /v1/stores/id", "remount") ]
    ELSE [ storage |-> st,
           call |-> Settle(c, IF res.kind = "throw" THEN res
                              ELSE Throw("Failed to create datastore")) ]

\* POST /v1/stores answered; the request carries a fresh root_uuid and the
\* empty root made at clock reading now
CreateResponse ==
    /\ call.pc = "create"
    /\ \/ \E now \in Times :
            LET req == datastoreCreateRequest(call.drivers[1], DeviceId, <<DeviceId>>, call.n, now)
                g == GwCreateDatastore(gw, req)
                h == createHandled(Faulted(call, g.resp), storage, httpRequest(g.resp))
            IN  gw' = g.gw /\ storage' = h.storage /\ call' = h.call
       \/ \E response \in Failures :
            LET h == createHandled(Faulted(call, response), storage, httpRequest(response))
            IN  gw' = gw /\ storage' = h.storage /\ call' = h.call
    /\ UNCHANGED <<prev, sent, session>>

\* GET /v1/stores/<id> answered, for the mount that follows a create
RemountResponse ==
    /\ call.pc = "remount"
    /\ \E response \in Answers({GwGetDatastore(gw,
                                        datastoreRequestPathInfo(makeMountContext(None, NULL))),
                                 NotFound}) :
          LET r == datastoreMountResult(httpRequest(response), makeMountContext(None, NULL))
              c == Faulted(call, response)
              st == IF r.kind = "ctx"
                    THEN setCachedMountContext(storage, SessionDatastoreId, AppName, r.ctx)
                    ELSE storage
          IN  /\ storage' = st
              /\ call' = IF r.kind = "throw" THEN Settle(c, r)
                         ELSE IF r.kind = "null" THEN Settle(c, Throw("TypeError"))
                         ELSE mountOrCreateResolved(c, st, markCreated(r.ctx, c.urls))
    /\ UNCHANGED <<gw, prev, sent, session>>

\* getDeviceRoot's handler: ENOENT is handed on, other errors throw
getDeviceRootResult(response) ==
    IF response.kind = "error" /\ response.errno # "ENOENT"
    THEN Throw("Failed to getFile")
    ELSE response

\* deleteFile: Object.keys(device_root['files']).includes(file_name)
AnyNameListed(root, file_name) == TRUE
rootListsFile(root, file_name) == file_name \in DOMAIN root.files

\* findDeviceRootInfo: is the root expected to exist already?
expectDeviceRoot(datastore, data_pubkey) ==
    datastore.pubkey = data_pubkey \/ getDeviceRootVersion > 0

\* a variant that never expects the root: it makes an empty one on any error
NeverExpectedRootInfo(res, datastore, now) ==
    IF res.kind = "error"
    THEN [ kind |-> "root", created |-> TRUE,
           device_root |-> makeEmptyDeviceRootDirectory(datastoreGetId(datastore.pubkey), <<>>, now) ]
    ELSE [kind |-> "root", created |-> FALSE, device_root |-> res.body.device_root_page]

\* findDeviceRootInfo's handler of getDeviceRoot's result
findDeviceRootInfoResult(res, datastore, now) ==
    IF res.kind = "error"
    THEN IF expectDeviceRoot(datastore, AppPublicKeys[1].public_key) THEN res
         ELSE [ kind |-> "root", created |-> TRUE,
                device_root |-> makeEmptyDeviceRootDirectory(datastoreGetId(datastore.pubkey), <<>>, now) ]
    ELSE [kind |-> "root", created |-> FALSE, device_root |-> res.body.device_root_page]

\* GET .../device_roots answered: putFile goes on to post the file,
\* deleteFile to delete it when the root lists it
GetRootResponse ==
    /\ call.pc = "get_root"
    /\ \E response \in Answers(GwGetDeviceRoots(gw)), now \in Times :
          LET c == Faulted(call, response)
              datastore == getCachedMountContext(storage, SessionDatastoreId, AppName)[1].datastore[1]
              res == getDeviceRootResult(httpRequest(response))
              root_info == IF res.kind = "throw" THEN res
                           ELSE findDeviceRootInfoResult(res, datastore, now)
          IN  call' =
                IF root_info.kind # "root" THEN Settle(c, root_info)
                ELSE IF datastoreMountSync(storage, None, FALSE) # "cached"
                THEN Settle(c, Throw("No datastore returned"))
                ELSE LET c1 == [c EXCEPT !.device_root = Some(root_info.device_root)] IN
                     IF c.op = "putFile"
                     THEN Issue([c1 EXCEPT !.body = Some(putFileRequest(
                                     datastore, c.name, c.bytes, DeviceId, AppPrivKey, now))],
                                "POST files", "put_file_data")
                     ELSE IF ~rootListsFile(root_info.device_root, c.name)
                     THEN Settle(c, [kind |-> "error", error |-> "No such file", errno |-> "ENOENT"])
                     ELSE LET file_data_id == <<datastoreGetId(datastore.pubkey), c.name>>
                              file_tombstone == makeDataTombstone(
                                  makeFullyQualifiedDataId(DeviceId, file_data_id), now)
                          IN  Issue([c1 EXCEPT !.tombstone = Some(file_tombstone),
                                               !.body = Some(deleteFileRequest(
                                                   datastore, <<file_tombstone>>, AppPrivKey))],
                                    "DELETE files", "delete_file_data")
    /\ UNCHANGED <<storage, gw, prev, sent, session>>

\* putFileData's, deleteFileData's and putDeviceRoot's handler: an error
\* object in the response is thrown
\* a variant that hands the error object on to the caller
LenientMutationResult(response, error) == response
mutationResult(response, error) ==
    IF response.kind = "error" THEN Throw(error) ELSE response

\* one entry of the history of device roots posted: acked once the gateway
\* accepted it, recorded once putFile handed its timestamp to putDeviceRootVersion
SentRoot(root_uuid, timestamp) ==
    [ root_uuid |-> root_uuid, timestamp |-> timestamp, n |-> call.n,
      acked |-> FALSE, recorded |-> FALSE ]

\* POST .../files answered: the header gets its URLs, the root its entry, and
\* the root is posted
PutFileDataResponse ==
    /\ call.pc = "put_file_data"
    /\ \/ \E now \in Times :
            LET g == GwPutFile(gw, call.name, call.body[1])
                res == mutationResult(httpRequest(g.resp), "Failed to put file")
                datastore == getCachedMountContext(storage, SessionDatastoreId, AppName)[1].datastore[1]
                file_header == makeFileEntry(hashDataPayload(Utf8Decode(call.bytes)), res.body.urls, now)
                info == deviceRootInsert(datastoreGetId(datastore.pubkey), datastore.root_uuid,
                                         call.device_root[1], call.name, file_header,
                                         DeviceId, now, now)
            IN  /\ gw' = g.gw
                /\ call' = Issue([Faulted(call, g.resp) EXCEPT
                                              !.urls = Some(res.body.urls),
                                              !.device_root = Some(info.root),
                                              !.root_blob = Some(info.ret.device_root_blob),
                                              !.body = Some(putRootRequest(
                                                  datastore, info.ret.device_root_blob, AppPrivKey))],
                                 "POST device_roots", "put_root")
                /\ sent' = Append(sent, SentRoot(datastore.root_uuid, info.ret.timestamp))
       \/ \E response \in Failures :
            /\ call' = Settle(Faulted(call, response),
                              mutationResult(httpRequest(response), "Failed to put file"))
            /\ UNCHANGED <<gw, sent>>
    /\ UNCHANGED <<storage, prev, session>>

\* DELETE .../files answered: the root gets the tombstone and is posted
DeleteFileDataResponse ==
    /\ call.pc = "delete_file_data"
    /\ \/ \E now \in Times :
            LET g == GwDeleteFiles(gw, call.body[1])
                datastore == getCachedMountContext(storage, SessionDatastoreId, AppName)[1].datastore[1]
                removed == deviceRootRemove(datastoreGetId(datastore.pubkey), datastore.root_uuid,
                                            call.device_root[1], call.name, call.tombstone[1],
                                            DeviceId, now, now)
            IN  /\ gw' = g.gw
                /\ call' = Issue([Faulted(call, g.resp) EXCEPT
                                              !.device_root = Some(removed.root),
                                              !.root_blob = Some(removed.ret),
                                              !.body = Some(putRootRequest(
                                                  datastore, removed.ret, AppPrivKey))],
                                 "POST device_roots", "put_root")
                /\ sent' = Append(sent, SentRoot(datastore.root_uuid,
                                                 JSONparse(removed.ret.data).timestamp))
       \/ \E response \in Failures :
            /\ call' = Settle(Faulted(call, response),
                              mutationResult(httpRequest(response), "Failed to put device root"))
            /\ UNCHANGED <<gw, sent>>
    /\ UNCHANGED <<storage, prev, session>>

\* POST .../device_roots answered: putFile resolves to the file's URLs,
\* deleteFile to true
PutRootResponse ==
    /\ call.pc = "put_root"
    /\ \/ LET g == GwPutDeviceRoot(gw, call.body[1])
          IN  /\ gw' = g.gw
              /\ sent' = [sent EXCEPT ![Len(sent)].acked = TRUE,
                                      ![Len(sent)].recorded =
                                          (call.op = "putFile" /\ putDeviceRootVersion)]
              /\ call' = Settle(Faulted(call, g.resp),
                                IF call.op = "putFile"
                                      THEN [kind |-> "urls", file_urls |-> call.urls[1]]
                                      ELSE [kind |-> "true"])
       \/ \E response \in Failures :
            /\ call' = Settle(Faulted(call, response),
                              mutationResult(httpRequest(response), "Failed to put device root"))
            /\ UNCHANGED <<gw, sent>>
    /\ UNCHANGED <<storage, prev, session>>

\* getFileData's handler: not found is null, other errors throw, and the
\* body comes back as text
ErrorObjectGetFileData(response) == response
getFileDataResult(response) ==
    IF response.kind = "error"
    THEN IF response.errno = "ENOENT" THEN [kind |-> "null"]
         ELSE Throw("Failed to getFile")
    ELSE response

\* GET .../files?path=<name> answered
GetFileDataResponse ==
    /\ call.pc = "get_file"
    /\ \E response \in Answers({GwGetFile(gw, call.name)}) :
          call' = Settle(Faulted(call, response), getFileDataResult(httpRequest(response)))
    /\ UNCHANGED <<storage, gw, prev, sent, session>>

(***************************************************************************)
(* Spec: a signed-in client and a gateway.  A behaviour starts either with *)
(* nothing stored anywhere, or in the state an earlier session left: the   *)
(* datastore created and its context cached, with no file or with one.     *)
(***************************************************************************)
SessionPreferences == {None, Some(<<"A">>)}     \* session.storage.preferences[app_name]

FreshStart ==
    [ storage |-> [datastore_contexts |-> EmptyMap, partial_create_failures |-> EmptyMap],
      gw      |-> [datastore |-> None, root |-> None, stale_root |-> None, files |-> EmptyMap] ]

\* the state after datastoreMountOrCreate created the datastore at clock 1 ...
EarlierCreate == datastoreCreateRequest(<<"A">>, DeviceId, <<DeviceId>>, 0, 1)
EarlierContext ==
    datastoreMountResult(httpRequest(Ok([datastore |-> EarlierCreate.datastore])),
                         makeMountContext(None, NULL)).ctx
CreatedStart ==
    [ storage |-> setCachedMountContext(
                      datastoreCreateUnsetPartialFailure(FreshStart.storage),
                      SessionDatastoreId, AppName, EarlierContext),
      gw      |-> GwCreateDatastore(FreshStart.gw, EarlierCreate).gw ]

\* ... and after putFile("file1", bytes) then stored a file at clock 1
EarlierPayload == <<195, 169>>
EarlierInsert ==
    deviceRootInsert(DatastoreId, 0, EarlierCreate.root, "file1",
                     makeFileEntry(hashDataPayload(Utf8Decode(EarlierPayload)), <<"url1">>, 1),
                     DeviceId, 1, 1)
FileStart ==
    [ storage |-> CreatedStart.storage,
      gw      |-> GwPutDeviceRoot(
                      GwPutFile(CreatedStart.gw, "file1",
                                putFileRequest(EarlierCreate.datastore, "file1", EarlierPayload,
                                               DeviceId, AppPrivKey, 1)).gw,
                      putRootRequest(EarlierCreate.datastore, EarlierInsert.ret.device_root_blob,
                                     AppPrivKey)).gw ]

\* the session names a driver preference for the app only where the datastore
\* is still to be created
Init ==
    /\ \E start \in {FreshStart, CreatedStart, FileStart} :
          /\ storage = start.storage /\ gw = start.gw
          /\ \E p \in SessionPreferences :
                /\ p # None => start = FreshStart
                /\ session = [preferences |-> p, classes |-> SessionClasses]
    /\ call = NoCall
    /\ prev = Summary(NoCall)
    /\ sent = <<>>
    /\ device_root = IdleRoot /\ root_call = IdleRoot /\ sel = IdleSel /\ pure = IdlePure /\ ops = IdleMain

Next ==
    \/ StartMountOrCreate /\ UNCHANGED <<rootVars, selVars, pureVars, overlapVars>>
    \/ StartMount /\ UNCHANGED <<rootVars, selVars, pureVars, overlapVars>>
    \/ SetRetry /\ UNCHANGED <<rootVars, selVars, pureVars, overlapVars>>
    \/ StartPutFile /\ UNCHANGED <<rootVars, selVars, pureVars, overlapVars>>
    \/ StartDeleteFile /\ UNCHANGED <<rootVars, selVars, pureVars, overlapVars>>
    \/ StartGetFile /\ UNCHANGED <<rootVars, selVars, pureVars, overlapVars>>
    \/ MountResponse /\ UNCHANGED <<rootVars, selVars, pureVars, overlapVars>>
    \/ CreateResponse /\ UNCHANGED <<rootVars, selVars, pureVars, overlapVars>>
    \/ RemountResponse /\ UNCHANGED <<rootVars, selVars, pureVars, overlapVars>>
    \/ GetRootResponse /\ UNCHANGED <<rootVars, selVars, pureVars, overlapVars>>
    \/ PutFileDataResponse /\ UNCHANGED <<rootVars, selVars, pureVars, overlapVars>>
    \/ DeleteFileDataResponse /\ UNCHANGED <<rootVars, selVars, pureVars, overlapVars>>
    \/ PutRootResponse /\ UNCHANGED <<rootVars, selVars, pureVars, overlapVars>>
    \/ GetFileDataResponse /\ UNCHANGED <<rootVars, selVars, pureVars, overlapVars>>

Spec == Init /\ [][Next]_vars

(***************************************************************************)
(* SpecFlags: the same client, whose browser storage is shared with the    *)
(* session of another user of the application.  That session's marker is   *)
(* set by datastoreCreateSetRetry called with its token.                   *)
(***************************************************************************)
InitFlags ==
    /\ \E start \in {FreshStart, CreatedStart} :
          /\ \/ storage = start.storage
             \/ storage = setPartialFailureMarker(start.storage, OtherMarker, TRUE)
          /\ gw = start.gw
    /\ session = [preferences |-> None, classes |-> SessionClasses]
    /\ call = NoCall
    /\ prev = Summary(NoCall)
    /\ sent = <<>>
    /\ device_root = IdleRoot /\ root_call = IdleRoot /\ sel = IdleSel /\ pure = IdlePure /\ ops = IdleMain

\* datastoreCreateSetRetry(otherSessionToken)
SetRetryOther ==
    /\ Idle
    /\ storage' = setPartialFailureMarker(storage, OtherMarker, TRUE)
    /\ call' = Settle(NewCall("setRetryOther", "", <<>>), [kind |-> "undefined"])
    /\ prev' = Summary(call)
    /\ UNCHANGED <<gw, sent, session>>

NextFlags ==
    \/ StartMountOrCreate /\ UNCHANGED <<rootVars, selVars, pureVars, overlapVars>>
    \/ StartMount /\ UNCHANGED <<rootVars, selVars, pureVars, overlapVars>>
    \/ SetRetry /\ UNCHANGED <<rootVars, selVars, pureVars, overlapVars>>
    \/ StartPutFile /\ UNCHANGED <<rootVars, selVars, pureVars, overlapVars>>
    \/ StartDeleteFile /\ UNCHANGED <<rootVars, selVars, pureVars, overlapVars>>
    \/ StartGetFile /\ UNCHANGED <<rootVars, selVars, pureVars, overlapVars>>
    \/ MountResponse /\ UNCHANGED <<rootVars, selVars, pureVars, overlapVars>>
    \/ CreateResponse /\ UNCHANGED <<rootVars, selVars, pureVars, overlapVars>>
    \/ RemountResponse /\ UNCHANGED <<rootVars, selVars, pureVars, overlapVars>>
    \/ GetRootResponse /\ UNCHANGED <<rootVars, selVars, pureVars, overlapVars>>
    \/ PutFileDataResponse /\ UNCHANGED <<rootVars, selVars, pureVars, overlapVars>>
    \/ DeleteFileDataResponse /\ UNCHANGED <<rootVars, selVars, pureVars, overlapVars>>
    \/ PutRootResponse /\ UNCHANGED <<rootVars, selVars, pureVars, overlapVars>>
    \/ GetFileDataResponse /\ UNCHANGED <<rootVars, selVars, pureVars, overlapVars>>
    \/ SetRetryOther /\ UNCHANGED <<rootVars, selVars, pureVars, overlapVars>>

SpecFlags == InitFlags /\ [][NextFlags]_vars

(***************************************************************************)
(* SpecLostRoot: the file operations of Spec on a mounted datastore whose  *)
(* gateway holds no root page for this device: the datastore was created   *)
(* by this device and the page is gone, or it was created by another       *)
(* device of the user and this device has not written a page yet.          *)
(***************************************************************************)
OtherDeviceDatastore ==
    [ type       |-> "datastore",
      pubkey     |-> getPubkeyHex("privkey2"),
      drivers    |-> <<"A">>,
      device_ids |-> <<"dev2", DeviceId>>,
      root_uuid  |-> 0 ]
LostRootStart ==
    [ storage |-> CreatedStart.storage,
      gw      |-> [CreatedStart.gw EXCEPT !.root = None] ]
OtherDeviceStart ==
    [ storage |-> setCachedMountContext(
                      datastoreCreateUnsetPartialFailure(FreshStart.storage),
                      SessionDatastoreId, AppName,
                      datastoreMountResult(httpRequest(Ok([datastore |-> OtherDeviceDatastore])),
                                           makeMountContext(None, NULL)).ctx),
      gw      |-> [FreshStart.gw EXCEPT !.datastore = Some(OtherDeviceDatastore)] ]

InitLostRoot ==
    /\ \E start \in {LostRootStart, OtherDeviceStart} : storage = start.storage /\ gw = start.gw
    /\ session = [preferences |-> None, classes |-> SessionClasses]
    /\ call = NoCall
    /\ prev = Summary(NoCall)
    /\ sent = <<>>
    /\ device_root = IdleRoot /\ root_call = IdleRoot /\ sel = IdleSel /\ pure = IdlePure /\ ops = IdleMain

NextLostRoot ==
    \/ StartPutFile /\ UNCHANGED <<rootVars, selVars, pureVars, overlapVars>>
    \/ StartDeleteFile /\ UNCHANGED <<rootVars, selVars, pureVars, overlapVars>>
    \/ GetRootResponse /\ UNCHANGED <<rootVars, selVars, pureVars, overlapVars>>
    \/ PutFileDataResponse /\ UNCHANGED <<rootVars, selVars, pureVars, overlapVars>>
    \/ DeleteFileDataResponse /\ UNCHANGED <<rootVars, selVars, pureVars, overlapVars>>
    \/ PutRootResponse /\ UNCHANGED <<rootVars, selVars, pureVars, overlapVars>>

SpecLostRoot == InitLostRoot /\ [][NextLostRoot]_vars

(***************************************************************************)
(* SpecOverlap: two putFile calls of one client, started without awaiting  *)
(* one another.  Each is a promise chain; its handlers run one at a time,  *)
(* and the chains interleave where they wait for the gateway.  The mount   *)
(* context is cached, so datastoreMountOrCreate resolves without a request.*)
(***************************************************************************)
OpIds == {1, 2}
OpNames == <<"file1", "file2">>         \* the two calls put different names
NoOp(name, bytes) ==
    [ pc |-> "start", name |-> name, bytes |-> bytes, device_root |-> None,
      urls |-> None, body |-> None, result |-> [kind |-> "none"] ]
SettleOp(op, result) ==
    [op EXCEPT !.pc = "done", !.result = result, !.device_root = None, !.body = None]
OverlapDatastore == getCachedMountContext(storage, SessionDatastoreId, AppName)[1].datastore[1]

InitOverlap ==
    /\ \E start \in {CreatedStart, FileStart} : storage = start.storage /\ gw = start.gw
    /\ \E bytes \in Payloads : ops = [p \in OpIds |-> NoOp(OpNames[p], bytes)]
    /\ session = [preferences |-> None, classes |-> SessionClasses]
    /\ call = IdleMain /\ prev = IdleMain /\ sent = <<>>
    /\ device_root = IdleRoot /\ root_call = IdleRoot /\ sel = IdleSel /\ pure = IdlePure

\* putFile called: datastoreMountOrCreate finds the cached context and
\* findDeviceRootInfo sends GET .../device_roots
OverlapStartPutFile(p) ==
    /\ ops[p].pc = "start"
    /\ datastoreMountSync(storage, None, FALSE) = "cached"
    /\ ops' = [ops EXCEPT ![p].pc = "get_root"]
    /\ UNCHANGED gw

\* GET .../device_roots answered: putFile posts the file
OverlapGetRootResponse(p) ==
    /\ ops[p].pc = "get_root"
    /\ \E response \in Answers(GwGetDeviceRoots(gw)), now \in Times :
          LET res == getDeviceRootResult(httpRequest(response))
              root_info == IF res.kind = "throw" THEN res
                           ELSE findDeviceRootInfoResult(res, OverlapDatastore, now)
          IN  ops' = [ops EXCEPT ![p] =
                IF root_info.kind # "root" THEN SettleOp(@, root_info)
                ELSE [@ EXCEPT !.pc = "put_file_data",
                               !.device_root = Some(root_info.device_root),
                               !.body = Some(putFileRequest(OverlapDatastore, ops[p].name, ops[p].bytes,
                                                            DeviceId, AppPrivKey, now))]]
    /\ UNCHANGED gw

\* POST .../files answered: the root read earlier gets the entry and is posted
OverlapPutFileDataResponse(p) ==
    /\ ops[p].pc = "put_file_data"
    /\ \/ \E now \in Times :
            LET g == GwPutFile(gw, ops[p].name, ops[p].body[1])
                res == mutationResult(httpRequest(g.resp), "Failed to put file")
                file_header == makeFileEntry(hashDataPayload(Utf8Decode(ops[p].bytes)),
                                             res.body.urls, now)
                info == deviceRootInsert(datastoreGetId(OverlapDatastore.pubkey),
                                         OverlapDatastore.root_uuid, ops[p].device_root[1],
                                         ops[p].name, file_header, DeviceId, now, now)
            IN  /\ gw' = g.gw
                /\ ops' = [ops EXCEPT ![p] =
                       [@ EXCEPT !.pc = "put_root",
                                 !.urls = Some(res.body.urls),
                                 !.device_root = Some(info.root),
                                 !.body = Some(putRootRequest(OverlapDatastore,
                                                   info.ret.device_root_blob, AppPrivKey))]]
       \/ \E response \in Failures :
            /\ ops' = [ops EXCEPT ![p] =
                   SettleOp(@, mutationResult(httpRequest(response), "Failed to put file"))]
            /\ UNCHANGED gw

\* POST .../device_roots answered: putFile resolves to the file's URLs
OverlapPutRootResponse(p) ==
    /\ ops[p].pc = "put_root"
    /\ \/ LET g == GwPutDeviceRoot(gw, ops[p].body[1])
          IN  /\ gw' = g.gw
              /\ ops' = [ops EXCEPT ![p] =
                     SettleOp(@, [kind |-> "urls", file_urls |-> @.urls[1]])]
       \/ \E response \in Failures :
            /\ ops' = [ops EXCEPT ![p] =
                   SettleOp(@, mutationResult(httpRequest(response), "Failed to put device root"))]
            /\ UNCHANGED gw

OverlapRest == <<rootVars, selVars, pureVars, storage, call, prev, sent, session>>
NextOverlap ==
    \/ \E p \in OpIds : OverlapStartPutFile(p) /\ UNCHANGED OverlapRest
    \/ \E p \in OpIds : OverlapGetRootResponse(p) /\ UNCHANGED OverlapRest
    \/ \E p \in OpIds : OverlapPutFileDataResponse(p) /\ UNCHANGED OverlapRest
    \/ \E p \in OpIds : OverlapPutRootResponse(p) /\ UNCHANGED OverlapRest

SpecOverlap == InitOverlap /\ [][NextOverlap]_vars

(***************************************************************************)
(* Claims about the device-root edits (checked under SpecRoot).            *)
(***************************************************************************)
RootEdited == root_call.op \in {"insert", "remove"}
PageOf(blob) == JSONparse(blob.data)

\* C7: deviceRootInsert and deviceRootRemove set the root timestamp to
\* max(now, old + 1): the new timestamp is strictly greater than the input
\* root's and not smaller than the clock value read during the call; the page
\* returned carries that timestamp.
C7_TimestampAdvances ==
    RootEdited =>
        /\ root_call.timestamp = Max(root_call.now, root_call.before.timestamp + 1)
        /\ root_call.timestamp > root_call.before.timestamp
        /\ root_call.timestamp >= root_call.now
        /\ PageOf(root_call.page).timestamp = root_call.timestamp

\* C7 witness: a remove made while the clock is behind the root's timestamp
C7_Witness_ClockBehind ==
    /\ root_call.op = "remove"
    /\ root_call.now < root_call.before.timestamp

C9_RemoveKeepsFiles ==
    root_call.op = "remove" =>
        LET page == PageOf(root_call.page)
            before == root_call.before
        IN  /\ root_call.name \in DOMAIN page.tombstones
            /\ page.tombstones[root_call.name] = root_call.arg
            /\ page.files = before.files
            /\ DOMAIN page.tombstones = DOMAIN before.tombstones \cup {root_call.name}
            /\ \A n \in DOMAIN before.tombstones \ {root_call.name} :
                  page.tombstones[n] = before.tombstones[n]

\* C9 witness: a remove of a listed file, with another file listed and
\* another name already carrying a tombstone
C9_Witness_RemoveListedFile ==
    /\ root_call.op = "remove"
    /\ root_call.name \in DOMAIN root_call.before.files
    /\ root_call.name \in DOMAIN PageOf(root_call.page).files
    /\ \E n \in Names \ {root_call.name} :
          /\ n \in DOMAIN root_call.before.files
          /\ n \in DOMAIN root_call.before.tombstones

(***************************************************************************)
(* Claims about mounting and creating (checked under Spec).                *)
(***************************************************************************)
FlagSet == markerIsSet(storage, SessionMarker)
IssuedCreate == "POST /v1/stores" \in Range(call.requests)
\* datastoreMountOrCreate was called, by the application or by putFile, with
\* the partial-failure flag set
MountOrCreateCalledWithFlag == call.op \in {"mountOrCreate", "putFile"} /\ call.flag_at_start
DriverSelectionThrew ==
    call.pc = "done" /\ call.result = Throw("Unsatisfiable replication strategy")
\* what C1 promises of such a call
CreateIssuedAndFlagCleared ==
    /\ IssuedCreate
    /\ call.created => ~FlagSet
    /\ (call.op = "mountOrCreate" /\ call.pc = "done" /\ call.result.kind = "ctx")
            => call.created /\ call.result.ctx.created
    /\ call.ds # None => call.created /\ call.ds[1].created

\* C1 (as stated): if the partial-failure flag is set when
\* datastoreMountOrCreate is called, the call issues POST /v1/stores even
\* though a context is cached; when the create succeeds the flag is cleared
\* and the context the call resolves to has created = true.
C1_FlagForcesCreate ==
    MountOrCreateCalledWithFlag => CreateIssuedAndFlagCleared

\* C1 (amended): the same, for a call that gets its driver list - from
\* strategy.drivers, from the session's preference for the app, or from a
\* selectDrivers that returns.  When selectDrivers throws (as it does for the
\* default strategy {} without a preference), the call throws before any
\* request and the flag stays set.
C1_FlagForcesCreateGivenDrivers ==
    /\ (MountOrCreateCalledWithFlag /\ ~DriverSelectionThrew) => CreateIssuedAndFlagCleared
    /\ (MountOrCreateCalledWithFlag /\ DriverSelectionThrew) => call.requests = <<>> /\ FlagSet

\* C1 witness: the flag set and a context cached at the call, the datastore
\* created again and the call resolved
C1_Witness_RetryWithCache ==
    /\ call.op = "mountOrCreate" /\ call.flag_at_start /\ call.cached_at_start
    /\ call.pc = "done" /\ call.result.kind = "ctx"
    /\ call.result.ctx.created
    /\ SessionMarker \in DOMAIN storage.partial_create_failures
    /\ ~markerIsSet(storage, SessionMarker)

\* C2: datastoreMount called while the partial-failure flag is set resolves to
\* null without any HTTP request, whether or not a context is cached and
\* whether or not the gateway has the datastore.  The mounts made inside other
\* calls do the same: getFile sends nothing, and datastoreMountOrCreate's
\* first request is the create.
C2_FlaggedMountIsNull ==
    /\ (call.op = "mount" /\ call.flag_at_start) =>
            call.pc = "done" /\ call.result = [kind |-> "null"] /\ call.requests = <<>>
    /\ (call.op = "getFile" /\ call.flag_at_start) => call.requests = <<>>
    /\ (MountOrCreateCalledWithFlag /\ call.requests # <<>>) =>
            call.requests[1] = "POST /v1/stores"

\* C2 witness: a mount with the flag set, a context cached and the datastore
\* on the gateway
C2_Witness_FlaggedCachedMount ==
    /\ call.op = "mount" /\ call.flag_at_start /\ call.cached_at_start
    /\ gw.datastore # None
    /\ call.pc = "done"

\* C3: of two successive datastoreMountOrCreate calls, the first of which
\* creates the datastore, both resolve to contexts with equal datastore_id,
\* and the second resolves to a context without the created flag and issues
\* no create request.
C3_SecondMountOrCreate ==
    (prev.op = "mountOrCreate" /\ prev.created /\ prev.ok /\ call.op = "mountOrCreate") =>
        /\ call.pc = "done" /\ call.result.kind = "ctx"
        /\ Some(call.result.ctx.datastore_id) = prev.datastore_id
        /\ ~call.result.ctx.created
        /\ ~IssuedCreate

\* C3 witness: the second call settled after a first one that created
C3_Witness_TwoCalls ==
    /\ prev.op = "mountOrCreate" /\ prev.created /\ prev.ok
    /\ call.op = "mountOrCreate" /\ call.pc = "done"

(***************************************************************************)
(* Claims about files (checked under Spec).                                *)
(***************************************************************************)
\* getFile(name) settled, right after the call prev, the gateway having
\* answered its request
GetFileAfter(op) ==
    /\ prev.op = op /\ prev.ok
    /\ call.op = "getFile" /\ call.name = prev.name
    /\ call.pc = "done" /\ ~call.fault

\* C4: after putFile(name, bytes) resolved successfully, getFile(name)
\* resolves to exactly bytes, for every name and payload.
C4_RoundTrip ==
    GetFileAfter("putFile") =>
        call.result.kind = "text" /\ Utf8Encode(call.result.text) = prev.bytes

\* C5: after deleteFile(name) resolved successfully, a following getFile(name)
\* that the gateway answers resolves to null: not to the file's former bytes,
\* and not by throwing.
C5_GetAfterDelete ==
    GetFileAfter("deleteFile") => call.result = [kind |-> "null"]

\* C5 witness: getFile of a stored file settled after its deleteFile
C5_Witness_DeletedThenRead ==
    /\ GetFileAfter("deleteFile")
    /\ call.name \notin DOMAIN gw.files
    /\ call.name \in DOMAIN gw.root[1].files

\* C6: every device root posted by a successful putFile or deleteFile carries
\* a timestamp strictly greater than that of every root posted earlier by a
\* successful one for the same root_uuid, whatever the clock reads and
\* whatever root the gateway returns on the fetch before.
C6_SentTimestampsIncrease ==
    \A i \in 1..Len(sent), j \in 1..Len(sent) :
        (i < j /\ sent[i].acked /\ sent[j].acked /\ sent[i].root_uuid = sent[j].root_uuid)
            => sent[i].timestamp < sent[j].timestamp

\* the mounts inside putFile and deleteFile, once datastoreMountOrCreate has
\* resolved, find the context cached and the flag unset
InnerMountsCached ==
    call.pc \in {"get_root", "put_file_data", "delete_file_data", "put_root", "get_file"}
        => datastoreMountSync(storage, None, FALSE) = "cached"

(***************************************************************************)
(* Claims about selectDrivers (checked under SpecSelect).                  *)
(***************************************************************************)
Selected == sel.phase = "done" /\ ~sel.out.throws
\* the drivers of a list that match a concern, by the classification alone
MatchingIn(classes, drivers, concern) ==
    {d \in Range(drivers) :
        \E c \in REPLICATION_STRATEGY_CLASSES[concern] : d \in Range(classes[c])}

\* C10: when selectDrivers(S, C) returns a list D, then for every concern c of
\* S the number of drivers in D that match c is at least S[c].
C10_CountsMet ==
    Selected =>
        \A k \in 1..Len(sel.strategy) :
            Cardinality(MatchingIn(sel.classes, sel.out.drivers, sel.strategy[k].concern))
                >= sel.strategy[k].count

\* C10 witness: a list returned for a strategy of two concerns, one of them
\* wanting two replicas
C10_Witness_TwoConcerns ==
    /\ Selected
    /\ Len(sel.strategy) = 2
    /\ sel.strategy[1].count = 2
    /\ sel.strategy[2].count >= 1
    /\ sel.strategy[2].concern \notin {"publish"}

\* C11: the list selectDrivers returns is a sublist of the stable enumeration
\* of drivers: its entries stand at strictly increasing places of the
\* enumeration, so they keep its order and no driver appears twice.
C11_SublistOfEnumeration ==
    Selected =>
        LET all == allDrivers(sel.classes, 1, <<>>)
            D == sel.out.drivers
            place(d) == CHOOSE i \in 1..Len(all) : all[i] = d
        IN  \A i, j \in 1..Len(D) : i < j => place(D[i]) < place(D[j])

\* do these drivers meet every concern's required count?
MeetsStrategy(classes, strategy, drivers) ==
    \A k \in 1..Len(strategy) :
        Cardinality({d \in drivers :
            \E c \in REPLICATION_STRATEGY_CLASSES[strategy[k].concern] : d \in Range(classes[c])})
            >= strategy[k].count

\* C12: selectDrivers returns a smallest list: when it returns D, no
\* selection of fewer drivers than D has entries meets every concern's count.
C12_SmallestList ==
    Selected =>
        ~ \E T \in SUBSET Range(Drivers) :
              /\ Cardinality(T) < Len(sel.out.drivers)
              /\ MeetsStrategy(sel.classes, sel.strategy, T)

\* C13: selectDrivers throws exactly when some concern has fewer matching
\* drivers, among all drivers, than its required count; whenever every
\* concern can be met (the empty strategy and counts of 0 included) it
\* returns a list.
C13_ThrowsIffUnsatisfiable ==
    sel.phase = "done" =>
        (sel.out.throws <=>
            ~MeetsStrategy(sel.classes, sel.strategy,
                           Range(allDrivers(sel.classes, 1, <<>>))))

(***************************************************************************)
(* Claims about the other pure functions (checked under SpecPure).         *)
(***************************************************************************)
HttpRequestDone == pure.phase = "done" /\ pure.fn = "httpRequest"

\* C14: httpRequest maps the status to a fixed outcome: 400 resolves to an
\* error object with errno EPERM, 401 to EINVAL, 403 to EACCES, 404 to
\* ENOENT, and every status >= 500 rejects; the outcome for these statuses
\* does not depend on the body or its content type (it is never parsed).
C14_StatusOutcome ==
    HttpRequestDone =>
        LET status == pure.arg.status
            out == pure.out
        IN  /\ status = 400 => out = [kind |-> "error", error |-> "Operation not permitted", errno |-> "EPERM"]
            /\ status = 401 => out = [kind |-> "error", error |-> "Invalid request", errno |-> "EINVAL"]
            /\ status = 403 => out = [kind |-> "error", error |-> "Access denied", errno |-> "EACCES"]
            /\ status = 404 => out = [kind |-> "error", error |-> "No such file or directory", errno |-> "ENOENT"]
            /\ status >= 500 => out = [kind |-> "throw", error |-> "statusText"]

\* C14 witness: a 400 answer carrying a JSON body has been mapped
C14_Witness_ErrorStatusWithJsonBody ==
    /\ HttpRequestDone
    /\ pure.arg.status = 400 /\ pure.arg.json /\ pure.arg.body # <<>>

(***************************************************************************)
(* Claims about mounts and deleteFile (checked under Spec).                *)
(***************************************************************************)
MountSettled == call.op = "mount" /\ call.pc = "done"
\* the cache key of a mount with these options, as the claims state it: the
\* blockchain id of a multi-reader mount, else the datastore id
ClaimedCacheKey(opts) ==
    IF opts.blockchainID \notin {None, SessionBlockchainId}
    THEN <<opts.blockchainID, AppName>> ELSE <<DatastoreId, AppName>>

\* C15: when the gateway answers datastoreMount's request with 404 the call
\* resolves to null, when it answers 400, 401, 403 or >= 500 the call throws,
\* and in neither case does the step change the mount cache.
C15_MountFailure ==
    [][ (call.op = "mount" /\ call.pc = "mount" /\ call'.pc = "done"
            /\ (call'.status \in {400, 401, 403, 404} \/ call'.status >= 500))
        => /\ call'.status = 404 => call'.result = [kind |-> "null"]
           /\ call'.status # 404 => call'.result.kind = "throw"
           /\ storage'.datastore_contexts = storage.datastore_contexts ]_vars

\* C15 witness: a datastoreMount answered 401 has thrown, and one answered
\* 404 would resolve to null (the gateway holds no datastore)
C15_Witness_MountAnswered401 ==
    /\ MountSettled /\ call.requests # <<>>
    /\ call.status = 401 /\ call.result.kind = "throw"

\* C16: after datastoreMount resolved to a context (noCachedMounts not set)
\* that context is in the mount cache under its key, and a datastoreMount
\* with the same options right after it resolves to an equal context without
\* any request.
C16_MountIsCached ==
    /\ (MountSettled /\ call.result.kind = "ctx" /\ ~call.opts.noCachedMounts)
        => /\ ClaimedCacheKey(call.opts) \in DOMAIN storage.datastore_contexts
           /\ storage.datastore_contexts[ClaimedCacheKey(call.opts)] = call.result.ctx
    /\ (call.op = "mount" /\ prev.op = "mount" /\ prev.ctx # None
            /\ call.opts = prev.opts /\ ~prev.opts.noCachedMounts)
        => /\ call.pc = "done" /\ call.requests = <<>>
           /\ call.result.kind = "ctx" /\ Some(call.result.ctx) = prev.ctx

\* C16 witness: a multi-reader mount repeated right after it fetched its context
C16_Witness_MountTwice ==
    /\ MountSettled /\ prev.op = "mount" /\ prev.ctx # None
    /\ call.opts = prev.opts /\ call.opts.blockchainID = OtherBlockchainId
    /\ call.result.kind = "ctx"

C19_MultiReaderPath ==
    (call.op = "mount" /\ call.opts.blockchainID = OtherBlockchainId /\ call.requests # <<>>)
        => call.requests[1] = "GET /v1/stores/app?blockchain_id"

\* the contexts in the mount cache and the one a mount has just resolved to
KnownContexts ==
    {storage.datastore_contexts[k] : k \in DOMAIN storage.datastore_contexts}
    \cup (IF call.op = "mount" /\ call.pc = "done" /\ call.result.kind = "ctx"
          THEN {call.result.ctx} ELSE {})

\* C20: a context produced by datastoreMount, and every context in the mount
\* cache, carries this device's private key exactly when it is a
\* single-reader context of the client's own datastore; a multi-reader
\* context has privkey_hex null.
C20_PrivateKeyIffOwn ==
    \A ctx \in KnownContexts :
        /\ ctx.blockchain_id = None => ctx.privkey_hex = AppPrivKey
        /\ ctx.blockchain_id # None => ctx.privkey_hex = NULL

\* C20 witness: the cache holds the client's own context and another owner's
C20_Witness_BothCached ==
    /\ <<DatastoreId, AppName>> \in DOMAIN storage.datastore_contexts
    /\ <<OtherBlockchainId, AppName>> \in DOMAIN storage.datastore_contexts


\* C18: in every mutation request body the client sends (file put, device
\* root put, file delete), the lists headers, payloads and signatures have
\* the same length
C18_BodyListsMatch ==
    call.body # None =>
        /\ Len(call.body[1].headers) = Len(call.body[1].payloads)
        /\ Len(call.body[1].payloads) = Len(call.body[1].signatures)


PureDone(fn) == pure.phase = "done" /\ pure.fn = fn

\* C21: parseDataTombstone(makeDataTombstone(id)) returns id together with the
\* timestamp makeDataTombstone read from the clock; for a string that is not a
\* tombstone parseDataTombstone returns null; it never raises
C21_TombstoneRoundTrip ==
    PureDone("parseDataTombstone") =>
        /\ pure.out.kind # "throw"
        /\ pure.arg.made # None =>
              pure.out = [kind |-> "value", id |-> pure.arg.made[1].id,
                          timestamp |-> pure.arg.made[1].timestamp]
        /\ pure.arg.made = None => pure.out.kind = "null"

\* C22: makeFullyQualifiedDataId(device_id, data_id) contains no '/' for any
\* data_id, including one with several slashes
C22_NoSlashLeft ==
    PureDone("makeFullyQualifiedDataId") =>
        \A i \in 1..Len(pure.out) : pure.out[i] # "/"


\* the nodes a node refers to, and those it reaches in one or more steps
Members(heap, n) == {heap[n].kids[i] : i \in 1..Len(heap[n].kids)} \ {Leaf}
RECURSIVE ReachedFrom(_, _)
ReachedFrom(heap, nodes) ==
    LET more == nodes \cup UNION {Members(heap, n) : n \in nodes}
    IN  IF more = nodes THEN nodes ELSE ReachedFrom(heap, more)
HasCycle(heap, obj) ==
    \E n \in ReachedFrom(heap, {obj}) : n \in ReachedFrom(heap, Members(heap, n))

\* C23: jsonStableSerialize terminates on every input: a value that contains
\* a reference cycle (through objects, through arrays, or both) is refused with
\* the explicit error, or rendered with the cycle sentinel when opts.cycles is
\* true; it never recurses without end
C23_CyclesAreRefused ==
    PureDone("jsonStableSerialize") =>
        /\ ~(pure.out.kind = "throw" /\ pure.out.error = "RangeError")
        /\ HasCycle(pure.arg.heap, pure.arg.obj) =>
              IF pure.arg.cycles
              THEN /\ pure.out.kind = "text"
                   /\ \E i \in 1..Len(pure.out.text) : pure.out.text[i] = "__cycle__"
              ELSE pure.out = Raise("TypeError")


\* datastoreMountOrCreate resolved to a context after a create the gateway
\* accepted; the create request of call n carries root_uuid n
ResolvedAfterCreate ==
    /\ call.op = "mountOrCreate" /\ call.pc = "done"
    /\ call.created /\ call.result.kind = "ctx"

\* C24: whenever datastoreMountOrCreate performs a create, the context it
\* resolves to describes the datastore of that create: its datastore.root_uuid
\* is the root_uuid of the create request the gateway accepted, also on the
\* forced-retry path where an older context is already in the mount cache
C24_ContextOfTheCreate ==
    ResolvedAfterCreate =>
        /\ call.result.ctx.datastore # None
        /\ call.result.ctx.datastore[1].root_uuid = call.n


\* both putFile calls resolved to URLs
BothPutsResolved == \A p \in OpIds : ops[p].pc = "done" /\ ops[p].result.kind = "urls"

\* C25: if two putFile operations for different names are in flight at the
\* same time and both resolve successfully, the device root last written to
\* the gateway contains the files entries of both names
C25_BothEntriesKept ==
    BothPutsResolved =>
        \A p \in OpIds : ops[p].name \in DOMAIN gw.root[1].files


\* putFile resolved to the URLs of the file
PutFileResolved == call.op = "putFile" /\ call.pc = "done" /\ call.result.kind = "urls"

\* C26: after putFile resolves successfully, the version recorded for
\* (datastore_id, root_uuid, device_id) equals the timestamp of the device root
\* just written, so that a later findDeviceRootInfo on this device expects its
\* device root to exist even if this device did not create the datastore
C26_RootVersionRecorded ==
    PutFileResolved =>
        /\ getDeviceRootVersion = sent[Len(sent)].timestamp
        /\ expectDeviceRoot(OtherDatastore, AppPublicKeys[1].public_key)


\* the datastore of the mounted context, and whether findDeviceRootInfo
\* expects this device's root in it
MountedDatastore == getCachedMountContext(storage, SessionDatastoreId, AppName)[1].datastore[1]
RootExpected == expectDeviceRoot(MountedDatastore, AppPublicKeys[1].public_key)
EnoentObject == httpRequest(NotFound)
\* the last answer the call got is the gateway's 404 to GET .../device_roots
RootAnsweredEnoent ==
    /\ call.op \in {"putFile", "deleteFile"} /\ call.status = 404
    /\ call.requests # <<>> /\ call.requests[1] = "GET device_roots"

\* C27: when the gateway answers ENOENT for this device's root: if a root was
\* expected, findDeviceRootInfo resolves to the error object and the calling
\* putFile or deleteFile resolves to that error without sending any write
\* request; if a root was not expected, findDeviceRootInfo resolves to status
\* true with a fresh empty root (no files, no tombstones) and created = true
C27_EnoentForDeviceRoot ==
    RootAnsweredEnoent =>
        IF RootExpected
        THEN /\ \A now \in Times :
                  findDeviceRootInfoResult(EnoentObject, MountedDatastore, now) = EnoentObject
             /\ call.pc = "done" /\ call.result = EnoentObject
             /\ call.result.kind = "error" /\ call.result.errno = "ENOENT"
             /\ call.requests = <<"GET device_roots">>
        ELSE /\ \A now \in Times :
                  LET root_info == findDeviceRootInfoResult(EnoentObject, MountedDatastore, now)
                  IN  /\ root_info.kind = "root" /\ root_info.created
                      /\ root_info.device_root.files = EmptyMap
                      /\ root_info.device_root.tombstones = EmptyMap
             /\ call.op = "putFile" =>
                  /\ call.pc = "put_file_data"
                  /\ call.device_root[1].files = EmptyMap
                  /\ call.device_root[1].tombstones = EmptyMap

\* C27 witness: a putFile on a datastore another device created got ENOENT
\* for its root and goes on with an empty root
C27_Witness_FreshRootMade ==
    /\ RootAnsweredEnoent /\ ~RootExpected
    /\ call.op = "putFile" /\ call.pc = "put_file_data"


\* the requests of a mount or create
MountRequests == {"POST /v1/stores", "GET /v1/stores/id"}
\* the file header posted with the file data, and the device root posted
PostedFileHeader == JSONparse(JSONparse(call.body[1].headers[1]).data)
PostedDeviceRoot == JSONparse(JSONparse(call.body[1].payloads[1]).data)

\* C28: putFile performs its steps in the order mount, load device root, put
\* file data, put device root, record root version: the device root write is
\* sent only after the file data POST succeeded, the root version is recorded
\* only after the device root write succeeded, and the files entry inserted
\* into the written root carries exactly the URLs the gateway returned for the
\* file data (the header sent with the data carries an empty URL list)
C28_PutFileOrder ==
    call.op = "putFile" =>
        /\ \A i \in 1..Len(call.requests) :
              /\ call.requests[i] = "GET device_roots" =>
                    \A j \in 1..(i - 1) : call.requests[j] \in MountRequests
              /\ call.requests[i] = "POST files" =>
                    i > 1 /\ call.requests[i - 1] = "GET device_roots"
              /\ call.requests[i] = "POST device_roots" =>
                    i > 1 /\ call.requests[i - 1] = "POST files"
        /\ call.pc = "put_file_data" => PostedFileHeader.urls = <<>>
        /\ call.pc = "put_root" =>
              /\ call.status = 200 /\ call.urls # None
              /\ call.name \in DOMAIN gw.files
              /\ PostedDeviceRoot.files[call.name].urls = call.urls[1]
              /\ PostedDeviceRoot.files[call.name].data_hash =
                     hashDataPayload(Utf8Decode(call.bytes))
        /\ \A i \in 1..Len(sent) :
              (sent[i].n = call.n /\ sent[i].recorded) =>
                  /\ i = Len(sent) /\ sent[i].acked
                  /\ call.pc = "done" /\ call.result.kind = "urls"
                  /\ gw.root[1].timestamp = sent[i].timestamp
                  /\ gw.root[1].files[call.name].urls = call.result.file_urls
        /\ PutFileResolved => sent # <<>> /\ sent[Len(sent)].recorded

\* C28 witness: a putFile went through all its steps and recorded the version
C28_Witness_PutFileCompleted ==
    /\ call.op = "putFile" /\ call.pc = "done" /\ call.result.kind = "urls"
    /\ call.requests[Len(call.requests)] = "POST device_roots"
    /\ sent[Len(sent)].recorded


\* what holds while deleteFile runs: the root is posted right after the
\* DELETE, which succeeded, and carries the tombstone made for the file
DeleteFileSteps ==
    call.op = "deleteFile" =>
        /\ \A i \in 1..Len(call.requests) :
              call.requests[i] = "POST device_roots" =>
                  i > 1 /\ call.requests[i - 1] = "DELETE files"
        /\ call.pc = "put_root" =>
              /\ call.status = 200
              /\ call.name \notin DOMAIN gw.files
              /\ call.name \in DOMAIN PostedDeviceRoot.tombstones
              /\ PostedDeviceRoot.tombstones[call.name] = call.tombstone[1]
\* a device root lists the file and holds no tombstone for it
ListedWithoutTombstone(root, file_name) ==
    /\ root # None
    /\ file_name \in DOMAIN root[1].files
    /\ file_name \notin DOMAIN root[1].tombstones
\* the step in which deleteFile settles on the answer to its DELETE: the
\* request failed
DeleteFails ==
    /\ call.op = "deleteFile" /\ call.pc = "delete_file_data"
    /\ call'.pc = "done"

\* C29: deleteFile sends the device root carrying the new tombstone only after
\* the file DELETE request succeeded; if the DELETE fails, no device root is
\* written and the gateway's device root, left as it was, still lists the
\* file without a tombstone
C29_RootAfterDelete ==
    /\ []DeleteFileSteps
    /\ [][DeleteFails =>
            /\ gw' = gw /\ sent' = sent
            /\ call.name \in DOMAIN call.device_root[1].files
            /\ ListedWithoutTombstone(gw.root, call.name) =>
                   ListedWithoutTombstone(gw'.root, call.name)
            /\ call'.result.kind \in {"throw", "error"}
            /\ \A i \in 1..Len(call'.requests) : call'.requests[i] # "POST device_roots"]_vars

\* C29 witness: a deleteFile whose DELETE failed, the root on the gateway
\* listing the file without a tombstone
C29_Witness_DeleteFailed ==
    /\ call.op = "deleteFile" /\ call.pc = "done"
    /\ call.requests # <<>>
    /\ call.requests[Len(call.requests)] = "DELETE files"
    /\ call.fault
    /\ ListedWithoutTombstone(gw.root, call.name)


\* the call before this one was a putFile of the same name that stored its
\* file data and sent a device root the gateway never took
RootWriteMissed ==
    /\ prev.op = "putFile" /\ prev.name = call.name /\ ~prev.ok
    /\ \E i \in 1..Len(sent) : sent[i].n = call.n - 1 /\ ~sent[i].acked

\* C30: when a putFile(name) stored its file data but its device root write
\* never happened, the next putFile(name, bytes) that completes leaves a
\* device root whose files[name] entry carries the data hash of bytes and the
\* URLs returned for that later put
C30_NextPutRecovers ==
    (PutFileResolved /\ RootWriteMissed) =>
        /\ gw.root # None
        /\ call.name \in DOMAIN gw.root[1].files
        /\ gw.root[1].files[call.name].data_hash = hashDataPayload(Utf8Decode(call.bytes))
        /\ gw.root[1].files[call.name].urls = call.result.file_urls
        /\ call.name \in DOMAIN gw.files /\ gw.files[call.name] = call.bytes

\* C30 witness: a putFile completed with other bytes than the putFile of the
\* same name before it, whose device root write was missed
C30_Witness_SecondPutCompleted ==
    /\ PutFileResolved /\ RootWriteMissed
    /\ prev.bytes # call.bytes


\* putFile settled on the gateway's rejection of its file data POST
PutFileDataRejected ==
    /\ call.op = "putFile" /\ call.pc = "done"
    /\ call.requests # <<>> /\ call.requests[Len(call.requests)] = "POST files"
    /\ call.status \in {400, 401, 403, 404} \/ call.status >= 500

\* C31: if the gateway rejects the file data POST of putFile (status 400,
\* 401, 403, 404 or >= 500), putFile rejects with an exception rather than
\* resolving to a value, no device root write is sent, and no root version is
\* recorded
C31_RejectedFileData ==
    PutFileDataRejected =>
        /\ call.result.kind = "throw"
        /\ \A response \in Responses :
              (response.status \in {400, 401, 403, 404} \/ response.status >= 500) =>
                  mutationResult(httpRequest(response), "Failed to put file").kind = "throw"
        /\ "POST device_roots" \notin Range(call.requests)
        /\ \A i \in 1..Len(sent) : sent[i].n # call.n

\* C31 witness: the file data POST of a putFile was answered 403
C31_Witness_FileDataForbidden == PutFileDataRejected /\ call.status = 403


\* deleteFile is about to post the device root it edited
DeleteFilePostsRoot == call.op = "deleteFile" /\ call.pc = "put_root"

\* C32: every value that deleteFile stores in the tombstones map of a device
\* root is a signed tombstone: the tombstone string followed by ':' and its
\* base64 signature, the same form as the tombstones sent in the DELETE request
C32_StoredTombstoneSigned ==
    DeleteFilePostsRoot =>
        /\ call.name \in DOMAIN PostedDeviceRoot.tombstones
        /\ PostedDeviceRoot.tombstones[call.name] =
               signDataTombstone(call.tombstone[1], AppPrivKey)

\* C32 as the code has it: the value deleteFile stores in the tombstones map
\* is the unsigned tombstone of this device, delete-<now>:<fully qualified
\* id>; it carries no signature, unlike those of the DELETE request
C32_StoredTombstoneUnsigned ==
    DeleteFilePostsRoot =>
        /\ call.name \in DOMAIN PostedDeviceRoot.tombstones
        /\ \E now \in Times :
              PostedDeviceRoot.tombstones[call.name] =
                  [ op |-> "delete", timestamp |-> now,
                    id |-> makeFullyQualifiedDataId(
                               DeviceId, <<datastoreGetId(getPubkeyHex(AppPrivKey)), call.name>>) ]
        /\ PostedDeviceRoot.tombstones[call.name] = call.tombstone[1]
        /\ PostedDeviceRoot.tombstones[call.name] #
               signDataTombstone(call.tombstone[1], AppPrivKey)

\* C32 witness: deleteFile posts a root with the tombstone of the file
C32_Witness_TombstoneStored ==
    DeleteFilePostsRoot /\ call.name \in DOMAIN PostedDeviceRoot.tombstones


\* deleteFile resolved to true: the gateway took the root it posted
DeleteFileResolved == call.op = "deleteFile" /\ call.pc = "done" /\ call.result.kind = "true"

\* C33: after deleteFile(name) resolves successfully, the device root it
\* wrote marks name as deleted under the existence rule: the timestamp in
\* tombstones[name] is strictly later than files[name].timestamp, for every
\* clock behaviour
C33_TombstoneIsLater ==
    DeleteFileResolved =>
        /\ call.name \in DOMAIN gw.root[1].tombstones
        /\ call.name \in DOMAIN gw.root[1].files =>
              gw.root[1].tombstones[call.name].timestamp > gw.root[1].files[call.name].timestamp


\* the existence rule: the name is in files and not in tombstones with a
\* later timestamp
ExistsInRoot(root, file_name) ==
    /\ file_name \in DOMAIN root.files
    /\ ~(/\ file_name \in DOMAIN root.tombstones
          /\ root.tombstones[file_name].timestamp > root.files[file_name].timestamp)

\* C34: deleteFile(name) resolves to ENOENT and sends no request whenever name
\* does not exist in the loaded device root under the existence rule, in
\* particular when an earlier deleteFile(name) succeeded and the name was not
\* put again since
C34_DeletedNameIsEnoent ==
    (call.op = "deleteFile" /\ call.pc = "delete_file_data") =>
        ExistsInRoot(call.device_root[1], call.name)


\* C35: for every payload string, signDataPayload signs the same framed byte
\* sequence that hashDataPayload hashes: the decimal length prefix is the
\* payload's length in bytes in both, also for payloads that contain non-ASCII
\* characters
C35_SameFrame ==
    PureDone("signDataPayload") =>
        /\ pure.out.signed = pure.out.hashed
        /\ pure.out.signed =
               decimalBytes(Len(Utf8Encode(pure.arg))) \o <<58>> \o Utf8Encode(pure.arg) \o <<44>>


\* the entry of a marker in the flag map, and the step that is a set or a
\* clear of that marker: datastoreCreateSetRetry called with its token, or
\* the clear of the session's marker after an accepted create
MarkerEntry(st, marker) ==
    IF marker \in DOMAIN st.partial_create_failures
    THEN Some(st.partial_create_failures[marker]) ELSE None
SetRetryStepOf(marker) ==
    /\ call'.n = call.n + 1
    /\ call'.op = (IF marker = SessionMarker THEN "setRetry" ELSE "setRetryOther")
ClearStepOf(marker) ==
    /\ marker = SessionMarker
    /\ call.pc = "create" /\ call'.created /\ call'.status = 200

\* C36: the partial-failure flag of a (blockchain_id, app_name) pair becomes
\* true only through datastoreCreateSetPartialFailure / datastoreCreateSetRetry
\* for that pair: no mount, mountOrCreate, create, delete or file operation,
\* whether it succeeds or fails, turns the flag on, and setting or clearing it
\* for one pair leaves the flag of every other pair unchanged
C36_FlagSetOnlyByRetry ==
    [][\A marker \in {SessionMarker, OtherMarker} :
          /\ (~markerIsSet(storage, marker) /\ markerIsSet(storage', marker))
                 => SetRetryStepOf(marker)
          /\ MarkerEntry(storage', marker) # MarkerEntry(storage, marker)
                 => (SetRetryStepOf(marker) \/ ClearStepOf(marker))]_vars

\* C36 witness: a create cleared the session's flag, which had been set, while
\* the other pair's flag stayed set
C36_Witness_ClearedBesideOther ==
    /\ call.op \in {"mountOrCreate", "putFile", "deleteFile"}
    /\ call.flag_at_start /\ call.created
    /\ MarkerEntry(storage, SessionMarker) = Some(FALSE)
    /\ MarkerEntry(storage, OtherMarker) = Some(TRUE)


\* what the call saw of the storage when it started is still so
StorageAsAtStart ==
    /\ markerIsSet(storage, SessionMarker) = call.flag_at_start
    /\ (<<SessionDatastoreId, AppName>> \in DOMAIN storage.datastore_contexts) = call.cached_at_start
\* the step in which the create request of datastoreMountOrCreate fails
CreateFails == call.pc = "create" /\ call'.pc = "done" /\ ~call'.created

\* C37: if the create request inside datastoreMountOrCreate fails (error
\* response or exception), the call rejects, the partial-failure flag keeps
\* the value it had before the call, and the mount cache is unchanged
C37_FailedCreateLeavesStorage ==
    /\ [](call.pc = "create" => StorageAsAtStart)
    /\ []((call.pc = "done" /\ IssuedCreate /\ ~call.created) =>
              (call.result.kind = "throw" /\ StorageAsAtStart))
    /\ [][CreateFails => (storage' = storage /\ gw' = gw)]_vars

\* C37 witness: a create was refused while the flag was set and a context
\* was cached
C37_Witness_RetryRefused ==
    /\ call.pc = "done" /\ IssuedCreate /\ ~call.created
    /\ call.flag_at_start /\ call.cached_at_start
    /\ call.status \in FailStatuses


\* datastoreMountOrCreate settled
MountOrCreateSettled == call.op = "mountOrCreate" /\ call.pc = "done"
\* the mount that followed its accepted create found no datastore
RemountFoundNothing ==
    /\ MountOrCreateSettled /\ call.created
    /\ call.requests[Len(call.requests)] = "GET /v1/stores/id" /\ call.status = 404

\* C38: datastoreMountOrCreate never resolves to null or to an error object:
\* it resolves to a context whose datastore descriptor is set, or it rejects;
\* in particular, if the mount that follows a successful create finds no
\* datastore, the call rejects
C38_ContextOrReject ==
    /\ MountOrCreateSettled =>
          /\ call.result.kind \in {"ctx", "throw"}
          /\ call.result.kind = "ctx" => call.result.ctx.datastore # None
    /\ RemountFoundNothing => call.result.kind = "throw"

\* C38 witness: the gateway accepted the create and answered the mount after
\* it with 404
C38_Witness_RemountNotFound == RemountFoundNothing


\* C39: in every reachable state, no context stored in the mount cache has
\* created = true or carries creation urls: these appear only on the object
\* resolved by the datastoreMountOrCreate call that performed the create
C39_CacheHoldsPlainContexts ==
    /\ \A cache_key \in DOMAIN storage.datastore_contexts :
          /\ ~storage.datastore_contexts[cache_key].created
          /\ storage.datastore_contexts[cache_key].urls = None
    /\ (call.pc = "done" /\ call.result.kind = "ctx"
            /\ (call.result.ctx.created \/ call.result.ctx.urls # None))
          => (call.op = "mountOrCreate" /\ call.created)

\* C39 witness: datastoreMountOrCreate resolved to the context it found in the
\* cache after its create, marked created, and the cache holds it unmarked
C39_Witness_CachedBesideCreated ==
    /\ call.op = "mountOrCreate" /\ call.pc = "done" /\ call.result.kind = "ctx"
    /\ call.result.ctx.created /\ call.result.ctx.urls # None
    /\ <<SessionDatastoreId, AppName>> \in DOMAIN storage.datastore_contexts
    /\ ~storage.datastore_contexts[<<SessionDatastoreId, AppName>>].created


\* the timestamp in the payload of a session token
TokenTimestamp(token) == token[2].timestamp

\* C40: setUserData keeps the newer session token: when storage already holds
\* a coreSessionToken and the supplied user data carries a different one, the
\* token with the larger timestamp is the one persisted, so a newer supplied
\* token replaces the stored one; every other supplied field (appPrivateKey,
\* datastore_contexts) is persisted as supplied
C40_NewerTokenKept ==
    PureDone("setUserData") =>
        LET u == pure.arg.u
            userData == pure.arg.userData
        IN  /\ pure.out.appPrivateKey = userData.appPrivateKey
            /\ pure.out.datastore_contexts = userData.datastore_contexts
            /\ (u.coreSessionToken # None /\ userData.coreSessionToken # None
                    /\ u.coreSessionToken # userData.coreSessionToken) =>
                  pure.out.coreSessionToken =
                      IF TokenTimestamp(u.coreSessionToken[1]) <
                             TokenTimestamp(userData.coreSessionToken[1])
                      THEN userData.coreSessionToken ELSE u.coreSessionToken

====
